---- MODULE Spec2Model ----
(***************************************************************************)
(* Model of the mammoth SDK's resilient request executor                   *)
(* (MammothClient._request, src/mammoth/client.py) and of the job tracker  *)
(* built on it (JobsAPI.get_job / get_jobs / wait_for_job / wait_for_jobs, *)
(* src/mammoth/api/jobs.py).                                               *)
(*                                                                         *)
(* One behaviour is one top-level call (op) made by a single thread: the   *)
(* call's arguments are chosen in Init, the server's answers and the       *)
(* duration of each network call are chosen by the environment.  Time is   *)
(* an integer clock (now) advanced by network calls and by time.sleep.     *)
(***************************************************************************)
EXTENDS Integers, Sequences, FiniteSets, TLC

\* ------------------------------------------------------------------ bounds
\* Largest configured max_retries explored (the smallest is -1).
MaxRetries == 3
\* Largest wait timeout explored, in clock ticks (the smallest is -1).
MaxTimeout == 3
\* Largest poll_interval explored (the smallest is 1).
MaxPollInterval == 2
\* Longest duration of one network call, in clock ticks.
MaxCallTime == 1
\* Largest timeout explored under wait_for_jobs (the smallest is 0).
MaxBatchTimeout == 2
\* Longest list of job identifiers handed to wait_for_jobs.
MaxJobs == 2
\* Longest list of files handed to upload_files.
MaxFiles == 2
\* Largest timeout explored under upload_files (the other one is 0).
MaxUploadTimeout == 6
\* Longest list of job records handed to extract_dataset_ids.
MaxRecords == 3
\* Largest timeout explored under download_dataview_csv (the other one is 0).
MaxDownloadTimeout == 6
\* jobs.py 56, 97: the default poll_interval of wait_for_job and
\* wait_for_jobs.
DefaultPollInterval == 5

\* ------------------------------------------------------------ value domains
Ops ==
  {"request", "wait_for_job", "wait_for_jobs", "test_connection",
   "upload_files", "extract_dataset_ids", "download_dataview_csv"}

RetryConfigs == (-1)..MaxRetries
Timeouts == (-1)..MaxTimeout
PollIntervals == 1..MaxPollInterval
CallTimes == 0..MaxCallTime
\* wait_for_jobs is explored on clients that retry not at all or once; the
\* retry loop itself is explored up to MaxRetries under SpecRequest.
BatchRetryConfigs == {0, 1}
BatchTimeouts == 0..MaxBatchTimeout
\* upload_files is explored on a client that retries once, with a timeout
\* that has passed at once and one that allows a second round.
UploadRetryConfigs == {1}
UploadTimeouts == {0, MaxUploadTimeout}

\* download_dataview_csv is explored on a client that retries once, with a
\* timeout that has passed at once and one that allows a second poll.
DownloadRetryConfigs == {1}
DownloadTimeouts == {0, MaxDownloadTimeout}

\* files.py 162-175: a file handed to upload_files is a path of an existing
\* file, a path of no file, or a file-like object.
FileInputs == {"path", "missing", "object"}

JobIds == {1, 2}

\* class JobStatus(str, Enum): the four values the client knows.
JobStatus == {"success", "failure", "processing", "error"}

\* Status strings the server may send: the known ones and one the client
\* does not know.
WireStatuses == JobStatus \cup {"queued"}

\* A job's opaque response payload: `failure_reason` ("None" when the key is
\* absent), `ds_id` (0 when the key is absent) and `url` ("None" when the key
\* is absent); one payload is empty, the other holds all three entries.
Payloads ==
  { [failure_reason |-> "None", ds_id |-> 0, url |-> "None"],
    [failure_reason |-> "disk full", ds_id |-> 7, url |-> "https"] }

\* Job records as they arrive on the wire.
WireJobs == [id : JobIds, status : WireStatuses, response : Payloads]

\* models/jobs.py 19-28: the job records that passed validation.
JobSchemas == { j \in WireJobs : j.status \in JobStatus }

\* The payload the server keeps for a job in batched answers: job 1's lacks
\* both keys, any other job's has both.
PayloadOf(id) ==
  IF id = 1 THEN [failure_reason |-> "None", ds_id |-> 0, url |-> "None"]
  ELSE [failure_reason |-> "disk full", ds_id |-> 7, url |-> "https"]

\* Job records of batched answers.
BatchWireJobs ==
  { [id |-> i, status |-> st, response |-> PayloadOf(i)] :
      i \in JobIds, st \in WireStatuses }

\* models/jobs.py 43-48: the records of a submission answer; job_id 0 stands
\* for a null job_id.
ObjectJobs == { [job_id |-> i] : i \in {0} \cup JobIds }

\* exports.py 124-129: the answers to an export submission: a body with a
\* `job` entry (the job's id, which may be 0, and its status), or a
\* modification answer with or without the required trigger_id (`valid`)
\* and with a future_id (`id`, 0 for none).
ExportAnswers ==
  { [form |-> "job", id |-> i, status |-> st, valid |-> TRUE] :
      i \in {0, 1}, st \in {"processing", "queued"} }
  \cup
  { [form |-> "modification", id |-> i, status |-> "-", valid |-> v] :
      i \in {0, 2}, v \in BOOLEAN }

\* HTTP status codes the server may answer with (both ends of the 2xx range,
\* the no-content and the unauthorized status, and other errors).
StatusCodes == {200, 204, 299, 300, 400, 401, 500}

\* Transport-level failures of session.request.
TransportFailures == {"Timeout", "ConnectionError", "RequestException"}

\* The elements of a list.
Range(seq) == { seq[i] : i \in 1..Len(seq) }

\* All sequences over S of length at most n.
SeqsUpTo(S, n) == UNION { [1..k -> S] : k \in 0..n }

\* ---------------------------------------------------------------- results
\* What a call yields: it is still running, it returned, or it raised.
Pending ==
  [kind |-> "pending", exc |-> "-", status_code |-> 0, job_id |-> 0,
   failure_reason |-> "-", timeout |-> 0, empty |-> FALSE, data |-> <<>>,
   cause |-> "-"]

\* A normal return; `empty` tells the empty result {} from a parsed body,
\* `data` is the list of job records of the parsed body.
Return(empty, data) ==
  [kind |-> "return", exc |-> "-", status_code |-> 0, job_id |-> 0,
   failure_reason |-> "-", timeout |-> 0, empty |-> empty, data |-> data,
   cause |-> "-"]

\* An exception of class exc; status_code 0 stands for None, `cause` is the
\* transport failure its message was built from ("-" if none).
Raise(exc, status_code) ==
  [kind |-> "raise", exc |-> exc, status_code |-> status_code, job_id |-> 0,
   failure_reason |-> "-", timeout |-> 0, empty |-> FALSE, data |-> <<>>,
   cause |-> "-"]

\* MammothAuthError.__init__: always status_code 401.
MammothAuthError == Raise("MammothAuthError", 401)

\* MammothAPIError(message, status_code=...).
MammothAPIError(status_code) == Raise("MammothAPIError", status_code)

\* client.py 167-172: the MammothAPIError (without status code) that wraps a
\* transport failure of the given kind.
TransportError(k) == [MammothAPIError(0) EXCEPT !.cause = k]

\* MammothJobTimeoutError(job_id, timeout_seconds).
MammothJobTimeoutError(jid, secs) ==
  [Raise("MammothJobTimeoutError", 0) EXCEPT !.job_id = jid, !.timeout = secs]

\* MammothJobFailedError(job_id, failure_reason).
MammothJobFailedError(jid, reason) ==
  [Raise("MammothJobFailedError", 0) EXCEPT !.job_id = jid,
                                            !.failure_reason = reason]

\* What an operation built on these calls yields: `shape` tells a boolean
\* (in `flag`) from a scalar identifier, None and a list (in `ids`); `raised`
\* is the exception that left it.
NoResult ==
  [kind |-> "pending", shape |-> "-", flag |-> FALSE, ids |-> <<>>,
   raised |-> Pending]

\* files.py 204, 216, 218: a list is returned.
ReturnList(ids) ==
  [NoResult EXCEPT !.kind = "return", !.shape = "list", !.ids = ids]

\* files.py 215, 218: one identifier, or None, is returned.
ReturnScalar(ids) ==
  IF ids = <<>> THEN [NoResult EXCEPT !.kind = "return", !.shape = "none"]
  ELSE [NoResult EXCEPT !.kind = "return", !.shape = "scalar",
                        !.ids = << ids[1] >>]

\* An exception leaves the operation.
Propagate(exc) == [NoResult EXCEPT !.kind = "raise", !.raised = exc]

\* return True / return False.
ReturnBool(b) == [NoResult EXCEPT !.kind = "return", !.shape = "bool", !.flag = b]

\* ------------------------------------------------------------------- state
VARIABLES
  op,                 \* the top-level call of this behaviour
  max_retries,        \* MammothClient.max_retries
  timeout,            \* the wait's timeout argument
  poll_interval,      \* the wait's poll_interval argument
  job_id,             \* wait_for_job's job_id argument
  job_ids,            \* wait_for_jobs' job_ids argument (the caller's list)
  files,              \* upload_files' files argument, as a list
  wait_for_completion,\* upload_files' wait_for_completion argument
  has_json,           \* whether the direct _request call carries a json body
  downloads,          \* session.get calls made by _download_file so far
  surplus,            \* records a batched answer may hold beyond the number
                      \* of identifiers asked for
  jobs_arg,           \* extract_dataset_ids' jobs argument
  dataset_ids,        \* extract_dataset_ids' dataset_ids
  job_index,          \* how many records its for loop has taken so far
  session,            \* the header names of the client's shared session
  parked,             \* the locals of the other thread's call, if there is one
  opened_files,       \* upload_files' opened_files (indices into files)
  open_handles,       \* indices of the files whose handle is open
  pc,                 \* position of the top-level call
  now,                \* time.time()
  start_time,         \* the wait's start_time
  rpc,                \* position of the running _request call
  attempt,            \* _request's loop variable
  last_exception,     \* _request's last_exception ("None" or a failure kind)
  rlog,               \* events of the running/last _request call
  attemptLog,         \* HTTP attempts made so far, one count per _request call
  failures,           \* kinds of the transport failures of a direct _request
                      \* call, in order
  response,           \* _request's local `response` (the last one received)
  rres,               \* what the last _request call yielded
  remaining_job_ids,  \* wait_for_jobs' pending list
  completed_jobs,     \* wait_for_jobs' completed list
  fetchLog,           \* identifier lists of the status fetches made so far
  statusLog,          \* wire statuses seen by wait_for_job, one per answer
  observedTerminal,   \* identifiers seen with a terminal status so far
  wsleeps,            \* poll-interval sleeps made by the wait so far
  rounds,             \* loop rounds the wait has entered so far
  fetchTime,          \* clock ticks spent inside status fetches so far
  fetchStart,         \* the clock when the last status fetch began
  outcome,            \* what the request or the wait yielded
  result              \* what the operation built on it yielded

vars ==
  << op, max_retries, surplus, timeout, poll_interval, job_id, job_ids, files,
     wait_for_completion, has_json, downloads, jobs_arg, dataset_ids,
     job_index, session,
     parked, opened_files, open_handles, pc, now,
     start_time, rpc, attempt, last_exception, rlog, attemptLog, failures,
     response, rres, remaining_job_ids, completed_jobs, fetchLog, statusLog,
     observedTerminal, wsleeps, rounds, fetchTime, fetchStart, outcome,
     result >>

extractVars == << jobs_arg, dataset_ids, job_index >>
callVars ==
  << op, max_retries, surplus, timeout, poll_interval, job_id, files,
     wait_for_completion, has_json, parked, extractVars, downloads >>
argVars == << callVars, job_ids >>
outerVars == << result, opened_files, open_handles >>
reqVars ==
  << rpc, attempt, last_exception, rlog, attemptLog, failures, response,
     rres, session >>
waitVars ==
  << start_time, remaining_job_ids, completed_jobs, fetchLog, statusLog,
     observedTerminal, wsleeps, rounds, fetchStart >>

\* ---------------------------------------------------------- _request
\* One entry of rlog: a transport failure, a received response, or a
\* backoff sleep of d ticks.
Event(ev, d) == [ev |-> ev, d |-> d]

\* jobs.py 47: the number of distinct identifiers the running status request
\* asks for.
RequestedCount ==
  IF fetchLog = <<>> THEN 0
  ELSE LET asked == fetchLog[Len(fetchLog)]
       IN  Cardinality({ asked[i] : i \in 1..Len(asked) })

\* The responses the server may give to the request of the given call.  A
\* body is empty, unparseable, or JSON; a JSON error body may carry `detail`.
\* A batched answer holds any job records, in any order, with or without
\* repetitions, at most `surplus` more than distinct identifiers were asked
\* for; a submission answer holds one record per file.
Bodies(o) ==
  IF pc = "fetching" /\ o \in {"wait_for_jobs", "upload_files"}
    THEN SeqsUpTo(BatchWireJobs, RequestedCount + surplus)
  ELSE IF o = "upload_files" THEN [1..Len(files) -> ObjectJobs]
  ELSE IF o = "download_dataview_csv" /\ pc = "submitting"
    THEN { <<a>> : a \in ExportAnswers }
  ELSE { <<j>> : j \in WireJobs }

\* One body used with the 2xx statuses other than 200.
SampleBody(o) ==
  IF o \in {"wait_for_jobs", "upload_files"} THEN <<>>
  ELSE IF o = "download_dataview_csv" /\ pc = "submitting"
    THEN << [form |-> "job", id |-> 1, status |-> "processing",
             valid |-> TRUE] >>
  ELSE << [id |-> 1, status |-> "success",
           response |-> [failure_reason |-> "None", ds_id |-> 0, url |-> "None"]] >>

\* The answers explored when two threads use the client: the records are
\* about the identifiers asked for, and the other answers are a 401 and an
\* unparseable 500.
ConcurrentBodies(o) ==
  IF o = "wait_for_jobs"
    THEN SeqsUpTo({ j \in BatchWireJobs :
                      j.id \in Range(fetchLog[Len(fetchLog)]) },
                  RequestedCount)
  ELSE IF o = "wait_for_job"
    THEN { << [id |-> job_id, status |-> st, response |-> PayloadOf(job_id)] >> :
             st \in WireStatuses }
  ELSE { SampleBody(o) }

ConcurrentResponses(o) ==
  { [status_code |-> 200, content |-> "json", detail |-> FALSE, data |-> b] :
      b \in ConcurrentBodies(o) }
  \cup
  { [status_code |-> 401, content |-> "empty", detail |-> FALSE,
     data |-> <<>>],
    [status_code |-> 500, content |-> "garbage", detail |-> FALSE,
     data |-> <<>>] }

Responses(o) ==
  IF parked.pc # "none" THEN ConcurrentResponses(o) ELSE
  { [status_code |-> s, content |-> c, detail |-> FALSE, data |-> <<>>] :
      s \in StatusCodes, c \in {"empty", "garbage"} }
  \cup
  { [status_code |-> s, content |-> "json", detail |-> d, data |-> <<>>] :
      s \in StatusCodes \ {200, 204, 299}, d \in BOOLEAN }
  \cup
  { [status_code |-> 200, content |-> "json", detail |-> FALSE, data |-> b] :
      b \in Bodies(o) }
  \cup
  { [status_code |-> s, content |-> "json", detail |-> FALSE,
     data |-> SampleBody(o)] : s \in {204, 299} }

\* No response received yet.
NoResponse ==
  [status_code |-> 0, content |-> "none", detail |-> FALSE, data |-> <<>>]

\* Classify without the 401 check: 401 is an API error like any other.
ClassifyWithoutAuthCheck(resp) ==
  IF 200 <= resp.status_code /\ resp.status_code < 300
    THEN IF resp.status_code = 204 \/ resp.content = "empty"
           THEN Return(TRUE, <<>>)
           ELSE IF resp.content = "json"
                  THEN Return(FALSE, resp.data)
                  ELSE MammothAPIError(resp.status_code)
    ELSE MammothAPIError(resp.status_code)

\* Classify with the success range closed at 300.
ClassifyClosedRange(resp) ==
  IF resp.status_code = 401 THEN MammothAuthError
  ELSE IF 200 <= resp.status_code /\ resp.status_code <= 300
    THEN IF resp.status_code = 204 \/ resp.content = "empty"
           THEN Return(TRUE, <<>>)
           ELSE IF resp.content = "json"
                  THEN Return(FALSE, resp.data)
                  ELSE MammothAPIError(resp.status_code)
    ELSE MammothAPIError(resp.status_code)

\* client.py 129-165: what _request does with a received response.
Classify(resp) ==
  IF resp.status_code = 401 THEN MammothAuthError
  ELSE IF 200 <= resp.status_code /\ resp.status_code < 300
    THEN IF resp.status_code = 204 \/ resp.content = "empty"
           THEN Return(TRUE, <<>>)
           ELSE IF resp.content = "json"
                  THEN Return(FALSE, resp.data)
                  ELSE MammothAPIError(resp.status_code)
    ELSE MammothAPIError(resp.status_code)

\* Backoff growing linearly instead of doubling.
BackoffLinear(a) == 2 * a

\* client.py 180: time.sleep(2 ** attempt).
Backoff(a) == 2 ^ a

\* The retry loop sleeping after the last attempt too.
SleepsAfterEveryAttempt(a) == a <= max_retries

\* client.py 178: the retry loop sleeps unless this was the last attempt.
SleepsAfter(a) == a < max_retries

\* client.py 66-70: the headers the session is created with.
SessionHeaders == {"X-API-KEY", "X-API-SECRET", "User-Agent"}

\* client.py 114-117: a call that sends files sends no json; add_export
\* (exports.py 121) sends the export specification as json.
SendsJson ==
  \/ op = "request" /\ has_json
  \/ op = "download_dataview_csv" /\ pc = "start"

\* Content-Type set on the session's own headers.
SessionAfterPrepareInPlace(json) ==
  IF json THEN session \cup {"Content-Type"} ELSE session

\* client.py 117-121: the session's headers after the request arguments
\* were prepared: Content-Type goes into a copy of them.
SessionAfterPrepare(json) == session

\* The retry counter going on from where the previous call left it.
FirstAttemptCarriedOver == IF attemptLog = <<>> THEN 0 ELSE attempt

\* client.py 125: range(self.max_retries + 1) starts every call at 0.
FirstAttempt == 0

\* client.py 105-125: entering _request.
RequestStart ==
  /\ session' = SessionAfterPrepare(SendsJson)
  /\ rpc' = "loop"
  /\ attempt' = FirstAttempt
  /\ last_exception' = "None"
  /\ rlog' = <<>>
  /\ attemptLog' = Append(attemptLog, 0)
  /\ failures' = <<>>
  /\ response' = NoResponse
  /\ rres' = Pending

\* ExceptClause with MammothAPIError caught for a retry like a transport
\* failure.
ExceptClauseRetriesApiErrors(exc) ==
  IF exc \in TransportFailures \cup {"MammothAPIError", "MammothAuthError"}
    THEN "retry"
    ELSE "propagate"

\* client.py 167-175: the except clause that handles an exception raised
\* inside the try block: the three requests exceptions are kept for a retry,
\* MammothAPIError (and its subclass MammothAuthError) is re-raised.
ExceptClause(exc) ==
  IF exc \in TransportFailures THEN "retry"
  ELSE IF exc \in {"MammothAPIError", "MammothAuthError"} THEN "reraise"
  ELSE "propagate"

\* client.py 177-180 and the loop header: after a caught failure the loop
\* sleeps and goes on, or, after the last attempt, just ends.
AfterCaught ==
  IF SleepsAfter(attempt)
    THEN rpc' = "backoff" /\ attempt' = attempt
    ELSE rpc' = "loop" /\ attempt' = attempt + 1

\* client.py 127, 167-180: session.request fails at transport level; the
\* failure is kept and, unless this was the last attempt, a backoff follows.
ReqTransportFailure ==
  /\ rpc = "loop"
  /\ attempt <= max_retries
  /\ \E k \in TransportFailures, d \in CallTimes :
       /\ ExceptClause(k) = "retry"
       /\ last_exception' = k
       /\ failures' = IF op = "request" THEN Append(failures, k) ELSE failures
       /\ now' = now + d
       /\ fetchTime' = IF pc = "fetching" THEN fetchTime + d ELSE fetchTime
  /\ rlog' = Append(rlog, Event("fail", 0))
  /\ attemptLog' = [attemptLog EXCEPT ![Len(attemptLog)] = @ + 1]
  /\ AfterCaught
  /\ UNCHANGED << argVars, outerVars, waitVars, session, pc, response, rres, outcome >>

\* client.py 178-180: the backoff sleep, then the next loop iteration.
ReqBackoff ==
  /\ rpc = "backoff"
  /\ now' = now + Backoff(attempt)
  /\ fetchTime' = IF pc = "fetching" THEN fetchTime + Backoff(attempt)
                  ELSE fetchTime
  /\ rlog' = Append(rlog, Event("sleep", Backoff(attempt)))
  /\ attempt' = attempt + 1
  /\ rpc' = "loop"
  /\ UNCHANGED << argVars, outerVars, waitVars, session, pc, last_exception,
                  attemptLog, failures, response, rres, outcome >>

\* client.py 127-165, 173-175: session.request yields a response; _request
\* returns, or raises an error that its own except clause re-raises.
ReqResponse ==
  /\ rpc = "loop"
  /\ attempt <= max_retries
  /\ \E resp \in Responses(op), d \in CallTimes :
       /\ response' = resp
       /\ now' = now + d
       /\ fetchTime' = IF pc = "fetching" THEN fetchTime + d ELSE fetchTime
       /\ LET r == Classify(resp) IN
            IF r.kind = "raise" /\ ExceptClause(r.exc) = "retry"
              THEN /\ last_exception' = r.exc
                   /\ AfterCaught
                   /\ UNCHANGED rres
              ELSE /\ rres' = r
                   /\ rpc' = "done"
                   /\ UNCHANGED << attempt, last_exception >>
  /\ rlog' = Append(rlog, Event("resp", 0))
  /\ attemptLog' = [attemptLog EXCEPT ![Len(attemptLog)] = @ + 1]
  /\ UNCHANGED << argVars, outerVars, waitVars, session, pc, failures, outcome >>

\* client.py 183: the loop is over; `raise last_exception` (raising None is
\* a TypeError).
ReqExhausted ==
  /\ rpc = "loop"
  /\ attempt > max_retries
  /\ rres' = IF last_exception = "None" THEN Raise("TypeError", 0)
             ELSE TransportError(last_exception)
  /\ rpc' = "done"
  /\ UNCHANGED << argVars, outerVars, waitVars, session, pc, now, attempt,
                  last_exception, rlog, attemptLog, failures, response,
                  fetchTime, outcome >>

\* A caller invokes client._request directly ...
CallRequest ==
  /\ op = "request"
  /\ pc = "start"
  /\ RequestStart
  /\ pc' = "calling"
  /\ UNCHANGED << argVars, outerVars, waitVars, now, fetchTime, outcome >>

\* ... and gets what it yields.
RequestDone ==
  /\ op = "request"
  /\ pc = "calling"
  /\ rpc = "done"
  /\ outcome' = rres
  /\ pc' = "done"
  /\ UNCHANGED << argVars, outerVars, waitVars, reqVars, now, fetchTime >>

\* test_connection taking every API error as a sign of a working connection.
TestConnectionAnyApiError(r) ==
  IF r.kind = "return" THEN TRUE
  ELSE IF r.exc = "MammothAuthError" THEN FALSE
  ELSE IF r.exc = "MammothAPIError" THEN TRUE
  ELSE FALSE

\* client.py 192-205: what test_connection makes of the request's outcome.
\* MammothAuthError is caught first; any other MammothAPIError counts as
\* connected only with status 400; any other exception gives False.
TestConnectionResult(r) ==
  IF r.kind = "return" THEN TRUE
  ELSE IF r.exc = "MammothAuthError" THEN FALSE
  ELSE IF r.exc = "MammothAPIError" THEN r.status_code = 400
  ELSE FALSE

\* client.py 196: test_connection calls _request.
TestConnectionCall ==
  /\ op = "test_connection"
  /\ pc = "start"
  /\ RequestStart
  /\ pc' = "calling"
  /\ UNCHANGED << argVars, outerVars, waitVars, now, fetchTime, outcome >>

\* client.py 197-205: the request is over; test_connection returns a boolean.
TestConnectionDone ==
  /\ op = "test_connection"
  /\ pc = "calling"
  /\ rpc = "done"
  /\ result' = ReturnBool(TestConnectionResult(rres))
  /\ pc' = "done"
  /\ UNCHANGED << argVars, waitVars, reqVars, opened_files, open_handles,
                  now, fetchTime, outcome >>

TestConnectionStep == TestConnectionCall \/ TestConnectionDone

RequestStep == ReqTransportFailure \/ ReqBackoff \/ ReqResponse \/ ReqExhausted

\* ------------------------------------------------------------ get_job(s)
\* models/jobs.py 11-28: pydantic accepts a job record only if its status is
\* a JobStatus value.
ValidJobSchema(j) == j.status \in JobStatus

\* jobs.py 30-32: JobResponse(**response).job; the empty result {} lacks the
\* required `job` field, a record that fails validation is rejected.
GetJob(r) ==
  IF r.kind = "raise" THEN r
  ELSE IF r.empty \/ ~ValidJobSchema(r.data[1])
         THEN Raise("ValidationError", 0)
         ELSE Return(FALSE, r.data)

\* get_jobs answering an error of the executor with an empty list of jobs.
GetJobsIgnoringErrors(r) ==
  IF r.kind = "raise" THEN Return(FALSE, <<>>)
  ELSE IF r.empty \/ (\E i \in 1..Len(r.data) : ~ValidJobSchema(r.data[i]))
         THEN Raise("ValidationError", 0)
         ELSE Return(FALSE, r.data)

\* jobs.py 47-50: JobsGetResponse(**response).jobs; every record of the list
\* is validated.
GetJobs(r) ==
  IF r.kind = "raise" THEN r
  ELSE IF r.empty \/ (\E i \in 1..Len(r.data) : ~ValidJobSchema(r.data[i]))
         THEN Raise("ValidationError", 0)
         ELSE Return(FALSE, r.data)

\* The failure reason left at None whatever the payload holds.
FailureReasonDropped(job) == "None"

\* jobs.py 81-83 / 126-128: job.response.get('failure_reason').
FailureReason(job) == job.response.failure_reason

\* The wire status a status answer reported, if it reported one.
ReportedStatuses(r) ==
  IF r.kind = "return" /\ ~r.empty
    THEN [i \in 1..Len(r.data) |-> r.data[i].status]
    ELSE <<>>

\* ---------------------------------------------------------- wait_for_job
\* The deadline check with the deadline one poll interval late.
BeforeDeadlineLate == now - start_time < timeout + poll_interval

\* The deadline check letting a poll start exactly at the deadline.
BeforeDeadlineInclusive == now - start_time <= timeout

\* The deadline check with a non-positive timeout taken as one second.
BeforeDeadlineClamped ==
  now - start_time < (IF timeout < 1 THEN 1 ELSE timeout)

\* jobs.py 75: the loop condition, evaluated before each poll.
BeforeDeadline == now - start_time < timeout

\* The loop never left through its condition.
DeadlineNeverPassed == FALSE

\* jobs.py 75, 118: the while condition `time.time() - start_time < timeout`
\* is false, so the loop is left.
DeadlinePassed == ~BeforeDeadline

\* jobs.py 78-89: what wait_for_job does with a fetched job: "return",
\* "raise" or "sleep".
WaitForJobBranch(job) ==
  IF job.status = "success" THEN "return"
  ELSE IF job.status \in {"failure", "error"} THEN "raise"
  ELSE IF job.status = "processing" THEN "sleep"
  ELSE "sleep"

\* wait_for_job is called by the caller of the SDK, or by
\* download_dataview_csv (exports.py 335).
WaitForJobCalled ==
  \/ op = "wait_for_job" /\ pc = "start"
  \/ op = "download_dataview_csv" /\ pc = "call_wait"

InWaitForJob == op \in {"wait_for_job", "download_dataview_csv"}

\* jobs.py 73: start_time = time.time().
WaitJobStart ==
  /\ WaitForJobCalled
  /\ start_time' = now
  /\ pc' = "loop"
  /\ UNCHANGED << argVars, outerVars, reqVars, now, remaining_job_ids, completed_jobs,
                  fetchLog, statusLog, observedTerminal, wsleeps, rounds,
                  fetchTime, fetchStart, outcome >>

\* jobs.py 75-76: the deadline has not passed; get_job calls _request.
WaitJobPoll ==
  /\ InWaitForJob
  /\ pc = "loop"
  /\ BeforeDeadline
  /\ rounds' = rounds + 1
  /\ fetchLog' = Append(fetchLog, <<job_id>>)
  /\ fetchStart' = now
  /\ RequestStart
  /\ pc' = "fetching"
  /\ UNCHANGED << argVars, outerVars, now, start_time, remaining_job_ids, completed_jobs,
                  statusLog, observedTerminal, wsleeps, fetchTime, outcome >>

\* jobs.py 75, 91: the deadline has passed.
WaitJobTimeout ==
  /\ InWaitForJob
  /\ pc = "loop"
  /\ DeadlinePassed
  /\ outcome' = MammothJobTimeoutError(job_id, timeout)
  /\ pc' = "done"
  /\ UNCHANGED << argVars, outerVars, reqVars, waitVars, now, fetchTime >>

\* jobs.py 76-89: get_job yields; an exception of the executor or of the
\* validation propagates, otherwise the job's status decides.
WaitJobHandle ==
  /\ InWaitForJob
  /\ pc = "fetching"
  /\ rpc = "done"
  /\ statusLog' = statusLog \o ReportedStatuses(rres)
  /\ LET got == GetJob(rres) IN
       IF got.kind = "raise"
         THEN /\ outcome' = got
              /\ pc' = "done"
              /\ UNCHANGED << now, wsleeps, observedTerminal >>
         ELSE LET job == got.data[1]
                  branch == WaitForJobBranch(job) IN
              /\ observedTerminal' =
                   IF job.status \in {"success", "failure", "error"}
                     THEN observedTerminal \cup {job_id}
                     ELSE observedTerminal
              /\ IF branch = "return"
                   THEN /\ outcome' = Return(FALSE, <<job>>)
                        /\ pc' = "done"
                        /\ UNCHANGED << now, wsleeps >>
                   ELSE IF branch = "raise"
                     THEN /\ outcome' =
                               MammothJobFailedError(job_id, FailureReason(job))
                          /\ pc' = "done"
                          /\ UNCHANGED << now, wsleeps >>
                     ELSE /\ now' = now + poll_interval
                          /\ wsleeps' = wsleeps + 1
                          /\ pc' = "loop"
                          /\ UNCHANGED outcome
  /\ UNCHANGED << argVars, outerVars, reqVars, start_time, remaining_job_ids,
                  completed_jobs, fetchLog, rounds, fetchTime, fetchStart >>

WaitJobStep == WaitJobStart \/ WaitJobPoll \/ WaitJobTimeout \/ WaitJobHandle

\* --------------------------------------------------------- wait_for_jobs
\* A removal that takes every occurrence of x.
RemoveAll(seq, x) == SelectSeq(seq, LAMBDA y : y # x)

\* The head of the list going, whatever identifier the record has.
RemoveHead(seq, x) == Tail(seq)

\* list.remove(x) on a list that holds x: the first occurrence goes.
Remove(seq, x) ==
  LET k == CHOOSE i \in 1..Len(seq) :
             seq[i] = x /\ \A j \in 1..(i - 1) : seq[j] # x
  IN [i \in 1..(Len(seq) - 1) |-> IF i < k THEN seq[i] ELSE seq[i + 1]]

\* jobs.py 118 / 131 / 134: `remaining_job_ids` as a truth value.
Truthy(seq) == Len(seq) > 0

\* One status request per pending identifier instead of one for all.
GetJobsRequestsPerJob(remaining) ==
  [i \in 1..Len(remaining) |-> << remaining[i] >>]

\* jobs.py 119, 47-48: the status requests of one round, each with its
\* identifier list: get_jobs makes one request for all pending identifiers.
GetJobsRequests(remaining) == << remaining >>

\* jobs.py 121-129: the for loop over the fetched jobs, from index i on.  st
\* holds the lists as updated so far, `seen` the identifiers seen terminal
\* and `exc` the exception that ended the loop (Pending if none did).
RECURSIVE ProcessJobs(_, _, _)
ProcessJobs(jobs, i, st) ==
  IF i > Len(jobs) THEN st
  ELSE LET job == jobs[i] IN
    IF job.status = "success"
      THEN LET appended == [st EXCEPT !.completed = Append(@, job),
                                      !.seen = @ \cup {job.id}] IN
           IF job.id \in Range(st.remaining)
             THEN ProcessJobs(jobs, i + 1,
                    [appended EXCEPT !.remaining = Remove(@, job.id)])
             ELSE [appended EXCEPT !.exc = Raise("ValueError", 0)]
    ELSE IF job.status \in {"failure", "error"}
      THEN [st EXCEPT !.seen = @ \cup {job.id},
                      !.exc = MammothJobFailedError(job.id, FailureReason(job))]
    ELSE ProcessJobs(jobs, i + 1, st)

\* The wait sleeping after every round, the last one included.
SleepsAfterEveryRound(remaining) == TRUE

\* jobs.py 131-132: after the for loop the wait sleeps if jobs are pending.
SleepsAfterRound(remaining) == Truthy(remaining)

\* wait_for_jobs is called by the caller of the SDK, or by upload_files
\* (files.py 208).
WaitForJobsCalled ==
  \/ op = "wait_for_jobs" /\ pc = "start"
  \/ op = "upload_files" /\ pc = "call_wait"

InWaitForJobs == op \in {"wait_for_jobs", "upload_files"}

\* The working list being the caller's list itself: what happens to one
\* happens to the other.
CallersListShared(updated) == updated

\* jobs.py 115: the working list is a copy of the caller's list, so the
\* caller's list is what it was, whatever the working list has become.
CallersList(updated) == job_ids

\* jobs.py 114-116: the working lists and the start time.
WaitJobsStart ==
  /\ WaitForJobsCalled
  /\ completed_jobs' = <<>>
  /\ remaining_job_ids' = job_ids
  /\ start_time' = now
  /\ pc' = "loop"
  /\ UNCHANGED << argVars, outerVars, reqVars, now, fetchLog, statusLog,
                  observedTerminal, wsleeps, rounds, fetchTime, fetchStart,
                  outcome >>

\* jobs.py 118-119: jobs are pending and the deadline has not passed;
\* get_jobs makes one _request for all pending identifiers.
WaitJobsPoll ==
  /\ InWaitForJobs
  /\ pc = "loop"
  /\ Truthy(remaining_job_ids) /\ BeforeDeadline
  /\ rounds' = rounds + 1
  /\ fetchLog' = fetchLog \o GetJobsRequests(remaining_job_ids)
  /\ fetchStart' = now
  /\ RequestStart
  /\ pc' = "fetching"
  /\ UNCHANGED << argVars, outerVars, now, start_time, remaining_job_ids, completed_jobs,
                  statusLog, observedTerminal, wsleeps, fetchTime, outcome >>

\* Job-timeout whenever the deadline has passed, also with nothing pending.
ExitOutcomeByDeadline(remaining, completed) ==
  IF Truthy(remaining)
    THEN MammothJobTimeoutError(remaining[1], timeout)
  ELSE IF DeadlinePassed THEN MammothJobTimeoutError(0, timeout)
  ELSE Return(FALSE, completed)

\* jobs.py 134-137: after the loop, job-timeout for the first pending
\* identifier if any is left, else the completed list.
ExitOutcome(remaining, completed) ==
  IF Truthy(remaining)
    THEN MammothJobTimeoutError(remaining[1], timeout)
    ELSE Return(FALSE, completed)

\* jobs.py 118, 134-137: the loop is over; job-timeout for the first pending
\* identifier if any is left, else the completed list.
WaitJobsExit ==
  /\ InWaitForJobs
  /\ pc = "loop"
  /\ ~Truthy(remaining_job_ids) \/ DeadlinePassed
  /\ outcome' = ExitOutcome(remaining_job_ids, completed_jobs)
  /\ pc' = "done"
  /\ UNCHANGED << argVars, outerVars, reqVars, waitVars, now, fetchTime >>

\* jobs.py 119-132: get_jobs yields; an exception of the executor or of the
\* validation propagates, otherwise the records are processed in order and,
\* if jobs are still pending, the wait sleeps for the poll interval.
WaitJobsHandle ==
  /\ InWaitForJobs
  /\ pc = "fetching"
  /\ rpc = "done"
  /\ LET got == GetJobs(rres) IN
       IF got.kind = "raise"
         THEN /\ outcome' = got
              /\ pc' = "done"
              /\ UNCHANGED << now, wsleeps, observedTerminal,
                              remaining_job_ids, completed_jobs, job_ids >>
         ELSE LET st == ProcessJobs(got.data, 1,
                          [completed |-> completed_jobs,
                           remaining |-> remaining_job_ids,
                           seen |-> observedTerminal,
                           exc |-> Pending]) IN
              /\ completed_jobs' = st.completed
              /\ remaining_job_ids' = st.remaining
              /\ job_ids' = CallersList(st.remaining)
              /\ observedTerminal' = st.seen
              /\ IF st.exc.kind = "raise"
                   THEN /\ outcome' = st.exc
                        /\ pc' = "done"
                        /\ UNCHANGED << now, wsleeps >>
                   ELSE /\ pc' = "loop"
                        /\ UNCHANGED outcome
                        /\ IF SleepsAfterRound(st.remaining)
                             THEN /\ now' = now + poll_interval
                                  /\ wsleeps' = wsleeps + 1
                             ELSE UNCHANGED << now, wsleeps >>
  /\ UNCHANGED << callVars, outerVars, reqVars, start_time, fetchLog,
                  statusLog, rounds, fetchTime, fetchStart >>

WaitJobsStep ==
  WaitJobsStart \/ WaitJobsPoll \/ WaitJobsExit \/ WaitJobsHandle

\* --------------------------------------------------- extract_dataset_ids
\* The loop appending only the identifiers it found.
AppendDatasetIdIfFound(ids, job) ==
  IF job.response.ds_id = 0 THEN ids ELSE Append(ids, job.response.ds_id)

\* jobs.py 151-156: one iteration: ds_id is None (0), or the ds_id entry of
\* the job's response payload if it has one, and is appended.
AppendDatasetId(ids, job) ==
  LET ds_id == IF job.response.ds_id # 0 THEN job.response.ds_id ELSE 0
  IN  Append(ids, ds_id)

\* jobs.py 149: dataset_ids = [].
ExtractStart ==
  /\ op = "extract_dataset_ids"
  /\ pc = "start"
  /\ dataset_ids' = <<>>
  /\ job_index' = 0
  /\ pc' = "extracting"
  /\ UNCHANGED << op, max_retries, surplus, timeout, poll_interval, job_id, job_ids,
                  files, wait_for_completion, has_json, parked, jobs_arg,
                  downloads,
                  outerVars, reqVars, waitVars, now, fetchTime, outcome >>

\* jobs.py 150-156: the for loop takes the next record.
ExtractNext ==
  /\ op = "extract_dataset_ids"
  /\ pc = "extracting"
  /\ job_index < Len(jobs_arg)
  /\ job_index' = job_index + 1
  /\ dataset_ids' = AppendDatasetId(dataset_ids, jobs_arg[job_index + 1])
  /\ UNCHANGED << op, max_retries, surplus, timeout, poll_interval, job_id, job_ids,
                  files, wait_for_completion, has_json, parked, jobs_arg,
                  downloads,
                  outerVars, reqVars, waitVars, pc, now, fetchTime, outcome >>

\* jobs.py 157: return dataset_ids.
ExtractReturn ==
  /\ op = "extract_dataset_ids"
  /\ pc = "extracting"
  /\ job_index >= Len(jobs_arg)
  /\ result' = ReturnList(dataset_ids)
  /\ pc' = "returned"
  /\ UNCHANGED << argVars, reqVars, waitVars, opened_files, open_handles,
                  now, fetchTime, outcome >>

ExtractStep == ExtractStart \/ ExtractNext \/ ExtractReturn

\* ---------------------------------------------------------- upload_files
\* jobs.py 139-157: the ds_id entry of each job's response payload, None (0)
\* where the payload has none.
ExtractDatasetIds(jobs) == [i \in 1..Len(jobs) |-> jobs[i].response.ds_id]

\* files.py 201: the job_ids of the submission records that have one.
SubmittedJobIds(objs) ==
  LET kept == SelectSeq(objs, LAMBDA o : o.job_id # 0)
  IN  [i \in 1..Len(kept) |-> kept[i].job_id]

\* files.py 212: the dataset identifiers that are not None.
ValidDatasetIds(ds) == SelectSeq(ds, LAMBDA d : d # 0)

\* files.py 214-216: one file gives the first identifier or None, several
\* files give the list.
UploadResult(nfiles, valid) ==
  IF nfiles = 1 THEN ReturnScalar(valid) ELSE ReturnList(valid)

\* The job identifiers returned in the shape upload_files uses after a wait.
JobIdsShapedByFileCount(ids) == UploadResult(Len(files), ids)

\* files.py 203-204: without wait_for_completion the job identifiers are
\* returned as they are, a list.
JobIdsReturned(ids) == ReturnList(ids)

\* The index of the first file that is a path of no file (0 if none is).
FirstMissing ==
  IF \E i \in 1..Len(files) : files[i] = "missing"
    THEN CHOOSE i \in 1..Len(files) :
           files[i] = "missing" /\ \A j \in 1..(i - 1) : files[j] # "missing"
    ELSE 0

\* files.py 162-175: the files opened by the loop, which stops at the first
\* path of no file.
OpenedByLoop ==
  LET last == IF FirstMissing = 0 THEN Len(files) ELSE FirstMissing - 1
      idx == [i \in 1..last |-> i]
  IN  SelectSeq(idx, LAMBDA i : files[i] = "path")

\* files.py 174-175: the file-like objects the caller hands over, open.
CallersObjects == { i \in 1..Len(files) : files[i] = "object" }

\* The cleanup done after the submission only, not on the way of an
\* exception.
ClosedOnSuccess(opened) ==
  IF pc = "closing" \/ rres.kind = "raise" THEN {} ELSE Range(opened)

\* files.py 194-197: the finally block closes every file of opened_files.
ClosedByFinally(opened) == Range(opened)

\* files.py 154-192: the files are opened; then either the submission
\* request starts, or ValueError is on its way out through the finally block.
UploadPrepare ==
  /\ op = "upload_files"
  /\ pc = "start"
  /\ opened_files' = OpenedByLoop
  /\ open_handles' = open_handles \cup Range(OpenedByLoop)
  /\ IF FirstMissing = 0
       THEN RequestStart /\ pc' = "posting"
       ELSE pc' = "closing" /\ UNCHANGED reqVars
  /\ UNCHANGED << argVars, waitVars, now, fetchTime, outcome, result >>

\* files.py 194-204, 207, 218: the finally block closes the opened files;
\* an exception goes on to the caller; otherwise the answer is parsed and
\* upload_files returns the job identifiers, calls wait_for_jobs, or returns
\* the result of an upload without jobs.
UploadParse ==
  /\ op = "upload_files"
  /\ pc = "closing" \/ (pc = "posting" /\ rpc = "done")
  /\ open_handles' = open_handles \ ClosedByFinally(opened_files)
  /\ IF pc = "closing"
       THEN /\ result' = Propagate(Raise("ValueError", 0))
            /\ pc' = "returned"
            /\ UNCHANGED job_ids
       ELSE IF rres.kind = "raise"
         THEN /\ result' = Propagate(rres)
              /\ pc' = "returned"
              /\ UNCHANGED job_ids
         ELSE LET ids == SubmittedJobIds(rres.data) IN
              /\ job_ids' = ids
              /\ IF ~wait_for_completion
                   THEN result' = JobIdsReturned(ids) /\ pc' = "returned"
                   ELSE IF Truthy(ids)
                     THEN pc' = "call_wait" /\ UNCHANGED result
                     ELSE /\ result' = UploadResult(Len(files), <<>>)
                          /\ pc' = "returned"
  /\ UNCHANGED << callVars, reqVars, waitVars, opened_files, now, fetchTime,
                  outcome >>

\* files.py 208-216: wait_for_jobs is over; its exception goes on to the
\* caller, its records give the dataset identifiers.
UploadFinish ==
  /\ op = "upload_files"
  /\ pc = "done"
  /\ result' = IF outcome.kind = "raise" THEN Propagate(outcome)
               ELSE UploadResult(Len(files),
                      ValidDatasetIds(ExtractDatasetIds(outcome.data)))
  /\ pc' = "returned"
  /\ UNCHANGED << argVars, reqVars, waitVars, opened_files, open_handles,
                  now, fetchTime, outcome >>

UploadStep == UploadPrepare \/ UploadParse \/ UploadFinish

\* ------------------------------------------------- download_dataview_csv
\* exports.py 118-129: what add_export makes of the submission's outcome: an
\* error of the executor goes on; a body with a `job` entry must validate as
\* JobResponse, any other body (the empty result {} too) as
\* PipelineExportsModificationResp, which requires trigger_id.
AddExport(r) ==
  IF r.kind = "raise" THEN r
  ELSE IF r.empty THEN Raise("ValidationError", 0)
  ELSE LET a == r.data[1] IN
       IF a.form = "job"
         THEN IF a.status \in JobStatus THEN Return(FALSE, << a >>)
              ELSE Raise("ValidationError", 0)
         ELSE IF a.valid THEN Return(FALSE, << a >>)
              ELSE Raise("ValidationError", 0)

\* exports.py 324-329: the job identifier taken from the export result: the
\* job's id, or the future_id if there is one; 0 stands for None.
ExportJobId(export_result) == export_result.id

\* The download going on whether the job's payload has a url or not.
HasUrlAlways(job) == TRUE

\* exports.py 338: the job's response payload is non-empty and has a url.
HasUrl(job) == job.response.url # "None"

\* exports.py 344, 374: the path of the downloaded file is returned.
ReturnPath == [NoResult EXCEPT !.kind = "return", !.shape = "path"]

\* What session.get and the writing of the file may end in.
DownloadOutcomes == {"ok", "RequestException", "IOError"}

\* exports.py 296-321, 118-122: the export is submitted.
DownloadSubmit ==
  /\ op = "download_dataview_csv"
  /\ pc = "start"
  /\ RequestStart
  /\ pc' = "submitting"
  /\ UNCHANGED << argVars, outerVars, waitVars, now, fetchTime, outcome >>

\* exports.py 124-129, 324-335: the submission is over; its error goes on to
\* the caller; without a job identifier ValueError is raised; otherwise
\* wait_for_job is called with it.
DownloadParse ==
  /\ op = "download_dataview_csv"
  /\ pc = "submitting"
  /\ rpc = "done"
  /\ LET export_result == AddExport(rres) IN
       IF export_result.kind = "raise"
         THEN /\ result' = Propagate(export_result)
              /\ pc' = "returned"
              /\ UNCHANGED job_id
         ELSE /\ job_id' = ExportJobId(export_result.data[1])
              /\ IF job_id' = 0
                   THEN /\ result' = Propagate(Raise("ValueError", 0))
                        /\ pc' = "returned"
                   ELSE pc' = "call_wait" /\ UNCHANGED result
  /\ UNCHANGED << op, max_retries, surplus, timeout, poll_interval, job_ids, files,
                  wait_for_completion, has_json, parked, extractVars,
                  downloads, opened_files, open_handles, reqVars, waitVars,
                  now, fetchTime, outcome >>

\* exports.py 335-344: wait_for_job is over; its exception goes on to the
\* caller; a record without url gives ValueError; otherwise _download_file
\* is called.
DownloadAfterWait ==
  /\ op = "download_dataview_csv"
  /\ pc = "done"
  /\ IF outcome.kind = "raise"
       THEN result' = Propagate(outcome) /\ pc' = "returned"
       ELSE IF ~HasUrl(outcome.data[1])
         THEN result' = Propagate(Raise("ValueError", 0)) /\ pc' = "returned"
         ELSE pc' = "downloading" /\ UNCHANGED result
  /\ UNCHANGED << argVars, reqVars, waitVars, opened_files, open_handles,
                  now, fetchTime, outcome >>

\* exports.py 360-381: session.get and the writing of the file; a failure of
\* either becomes a MammothAPIError without status code.
DownloadFile ==
  /\ op = "download_dataview_csv"
  /\ pc = "downloading"
  /\ downloads' = downloads + 1
  /\ \E o \in DownloadOutcomes, d \in CallTimes :
       /\ now' = now + d
       /\ result' = IF o = "ok" THEN ReturnPath
                    ELSE Propagate(MammothAPIError(0))
  /\ pc' = "returned"
  /\ UNCHANGED << op, max_retries, surplus, timeout, poll_interval, job_id, job_ids,
                  files, wait_for_completion, has_json, parked, extractVars,
                  opened_files, open_handles, reqVars, waitVars, fetchTime,
                  outcome >>

DownloadStep ==
  DownloadSubmit \/ DownloadParse \/ DownloadAfterWait \/ DownloadFile

\* ---------------------------------------------------------------- threads
\* The locals of the running call: its arguments and everything it keeps
\* while it runs.  max_retries and session belong to the client.
Locals ==
  [op |-> op, timeout |-> timeout, poll_interval |-> poll_interval,
   job_id |-> job_id, job_ids |-> job_ids, files |-> files,
   wait_for_completion |-> wait_for_completion, has_json |-> has_json,
   opened_files |-> opened_files, open_handles |-> open_handles,
   pc |-> pc, now |-> now, start_time |-> start_time, rpc |-> rpc,
   attempt |-> attempt, last_exception |-> last_exception, rlog |-> rlog,
   attemptLog |-> attemptLog,
   failures |-> failures, response |-> response, rres |-> rres,
   remaining_job_ids |-> remaining_job_ids,
   completed_jobs |-> completed_jobs, fetchLog |-> fetchLog,
   statusLog |-> statusLog, observedTerminal |-> observedTerminal,
   wsleeps |-> wsleeps, rounds |-> rounds, fetchTime |-> fetchTime,
   fetchStart |-> fetchStart, outcome |-> outcome, result |-> result]

\* The locals of a wait that has just been called.
StartFrame(o, t, p, jid, jids) ==
  [op |-> o, timeout |-> t, poll_interval |-> p,
   job_id |-> jid, job_ids |-> jids, files |-> <<>>,
   wait_for_completion |-> FALSE, has_json |-> FALSE,
   opened_files |-> <<>>, open_handles |-> {},
   pc |-> "start", now |-> 0, start_time |-> 0, rpc |-> "idle",
   attempt |-> 0, last_exception |-> "None", rlog |-> <<>>,
   attemptLog |-> <<>>,
   failures |-> <<>>, response |-> NoResponse, rres |-> Pending,
   remaining_job_ids |-> <<>>,
   completed_jobs |-> <<>>, fetchLog |-> <<>>,
   statusLog |-> <<>>, observedTerminal |-> {},
   wsleeps |-> 0, rounds |-> 0, fetchTime |-> 0,
   fetchStart |-> 0, outcome |-> Pending, result |-> NoResult]

\* There is no other thread.
NoFrame == [StartFrame("none", 0, 1, 0, <<>>) EXCEPT !.pc = "none"]

\* client.py 124-125, jobs.py 73, 114-116: the locals a thread finds when it
\* goes on are its own.
Resumed(frame) == frame

\* The running thread is suspended (inside a network call or a sleep, or
\* between two statements) and the other thread goes on.
Switch ==
  /\ parked.pc \notin {"none", "done"}
  /\ parked' = Locals
  /\ LET f == Resumed(parked) IN
       /\ op' = f.op
       /\ timeout' = f.timeout
       /\ poll_interval' = f.poll_interval
       /\ job_id' = f.job_id
       /\ job_ids' = f.job_ids
       /\ files' = f.files
       /\ wait_for_completion' = f.wait_for_completion
       /\ has_json' = f.has_json
       /\ opened_files' = f.opened_files
       /\ open_handles' = f.open_handles
       /\ pc' = f.pc
       /\ now' = f.now
       /\ start_time' = f.start_time
       /\ rpc' = f.rpc
       /\ attempt' = f.attempt
       /\ last_exception' = f.last_exception
       /\ rlog' = f.rlog
       /\ attemptLog' = f.attemptLog
       /\ failures' = f.failures
       /\ response' = f.response
       /\ rres' = f.rres
       /\ remaining_job_ids' = f.remaining_job_ids
       /\ completed_jobs' = f.completed_jobs
       /\ fetchLog' = f.fetchLog
       /\ statusLog' = f.statusLog
       /\ observedTerminal' = f.observedTerminal
       /\ wsleeps' = f.wsleeps
       /\ rounds' = f.rounds
       /\ fetchTime' = f.fetchTime
       /\ fetchStart' = f.fetchStart
       /\ outcome' = f.outcome
       /\ result' = f.result
  /\ UNCHANGED << max_retries, surplus, session, extractVars, downloads >>

\* ------------------------------------------------------------------- init
InitCall ==
  /\ op \in Ops
  /\ max_retries \in (IF op = "wait_for_jobs" THEN BatchRetryConfigs
                      ELSE IF op = "upload_files" THEN UploadRetryConfigs
                      ELSE IF op = "extract_dataset_ids" THEN {0}
                      ELSE IF op = "download_dataview_csv"
                        THEN DownloadRetryConfigs
                      ELSE RetryConfigs)
  /\ timeout \in (IF op = "wait_for_job" THEN Timeouts
                  ELSE IF op = "wait_for_jobs" THEN BatchTimeouts
                  ELSE IF op = "upload_files" THEN UploadTimeouts
                  ELSE IF op = "download_dataview_csv" THEN DownloadTimeouts
                  ELSE {0})
  /\ poll_interval \in (IF op \in {"wait_for_job", "wait_for_jobs"}
                          THEN PollIntervals
                        ELSE IF op \in {"upload_files", "download_dataview_csv"}
                          THEN {DefaultPollInterval}
                        ELSE {1})
  /\ job_id \in (IF op = "wait_for_job" THEN JobIds ELSE {0})
  /\ job_ids \in (IF op = "wait_for_jobs" THEN SeqsUpTo(JobIds, MaxJobs)
                  ELSE {<<>>})
  /\ files \in (IF op = "upload_files"
                  THEN SeqsUpTo(FileInputs, MaxFiles) \ {<<>>}
                  ELSE {<<>>})
  /\ wait_for_completion \in (IF op = "upload_files" THEN BOOLEAN
                               ELSE {FALSE})
  /\ has_json \in (IF op = "request" THEN BOOLEAN ELSE {FALSE})
  /\ jobs_arg \in (IF op = "extract_dataset_ids"
                     THEN SeqsUpTo(JobSchemas, MaxRecords) ELSE {<<>>})
  /\ dataset_ids = <<>>
  /\ job_index = 0
  /\ downloads = 0
  /\ session = SessionHeaders
  /\ opened_files = <<>>
  /\ open_handles = CallersObjects
  /\ pc = "start"
  /\ now = 0
  /\ start_time = 0
  /\ rpc = "idle"
  /\ attempt = 0
  /\ last_exception = "None"
  /\ rlog = <<>>
  /\ attemptLog = <<>>
  /\ failures = <<>>
  /\ response = NoResponse
  /\ rres = Pending
  /\ remaining_job_ids = <<>>
  /\ completed_jobs = <<>>
  /\ fetchLog = <<>>
  /\ statusLog = <<>>
  /\ observedTerminal = {}
  /\ wsleeps = 0
  /\ rounds = 0
  /\ fetchTime = 0
  /\ fetchStart = 0
  /\ outcome = Pending
  /\ result = NoResult

\* One call on the client, by one thread; the server sends no more records
\* than identifiers were asked for.
Init == InitCall /\ parked = NoFrame /\ surplus = 0

InitRequest == Init /\ op = "request"

NextRequest == CallRequest \/ RequestStep \/ RequestDone

SpecRequest == InitRequest /\ [][NextRequest]_vars

InitWaitJob == Init /\ op = "wait_for_job"

NextWaitJob == WaitJobStep \/ RequestStep

SpecWaitJob == InitWaitJob /\ [][NextWaitJob]_vars

InitWaitJobs == Init /\ op = "wait_for_jobs"

NextWaitJobs == WaitJobsStep \/ RequestStep

SpecWaitJobs == InitWaitJobs /\ [][NextWaitJobs]_vars

InitTestConnection == Init /\ op = "test_connection"

NextTestConnection == TestConnectionStep \/ RequestStep

SpecTestConnection == InitTestConnection /\ [][NextTestConnection]_vars

InitExtract == Init /\ op = "extract_dataset_ids"

NextExtract == ExtractStep

SpecExtract == InitExtract /\ [][NextExtract]_vars

InitDownload == Init /\ op = "download_dataview_csv"

NextDownload == DownloadStep \/ WaitJobStep \/ RequestStep

SpecDownload == InitDownload /\ [][NextDownload]_vars

InitUpload == Init /\ op = "upload_files"

NextUpload == UploadStep \/ WaitJobsStep \/ RequestStep

SpecUpload == InitUpload /\ [][NextUpload]_vars

\* upload_files with every list of files when it does not wait, and with one
\* file when it waits for the jobs of its submission.
InitUploadSubmit == InitUpload /\ (wait_for_completion => Len(files) = 1)

SpecUploadSubmit == InitUploadSubmit /\ [][NextUpload]_vars

\* Two threads on one client: a wait about job 1, or a direct request with
\* a json body, and a wait about job 2.  The client retries once; a wait
\* polls, sleeps for the poll interval and meets its deadline.
ConcurrentTimeouts == {1}
ConcurrentPollIntervals == {1}
ConcurrentWaits == {"wait_for_job", "wait_for_jobs"}

InitConcurrent ==
  /\ InitCall
  /\ surplus = 0
  /\ op \in ConcurrentWaits \cup {"request"}
  /\ max_retries = 1
  /\ op = "request" => has_json
  /\ op \in ConcurrentWaits =>
       timeout \in ConcurrentTimeouts /\ poll_interval \in ConcurrentPollIntervals
  /\ op = "wait_for_job" => job_id = 1
  /\ op = "wait_for_jobs" => job_ids = << 1 >>
  /\ parked \in
       { StartFrame("wait_for_job", t, p, 2, <<>>) :
           t \in ConcurrentTimeouts, p \in ConcurrentPollIntervals }
       \cup
       { StartFrame("wait_for_jobs", t, p, 0, << 2 >>) :
           t \in ConcurrentTimeouts, p \in ConcurrentPollIntervals }

NextConcurrent ==
  \/ CallRequest \/ RequestDone
  \/ WaitJobStep \/ WaitJobsStep
  \/ RequestStep
  \/ Switch

SpecConcurrent == InitConcurrent /\ [][NextConcurrent]_vars

\* Either wait operation.
InitWaits == Init /\ op \in {"wait_for_job", "wait_for_jobs"}

NextWaits == WaitJobStep \/ WaitJobsStep \/ RequestStep

SpecWaits == InitWaits /\ [][NextWaits]_vars

\* wait_for_jobs against a server whose batched answers may hold one record
\* more than identifiers were asked for; the wait makes one round at most.
SurplusTimeouts == {0, 1}

InitSurplus ==
  /\ InitCall
  /\ parked = NoFrame
  /\ surplus = 1
  /\ op = "wait_for_jobs"
  /\ timeout \in SurplusTimeouts

SpecSurplus == InitSurplus /\ [][NextWaitJobs]_vars

\* Termination is explored on clients that make no attempt at all or up to
\* two, and for identifier lists without and with a repetition.
LiveRetryConfigs == {-1, 1}
LiveJobIdLists == { <<>>, << 1, 2 >>, << 1, 1 >> }

InitLiveWaits ==
  /\ InitWaits
  /\ max_retries \in LiveRetryConfigs
  /\ op = "wait_for_jobs" => job_ids \in LiveJobIdLists

\* Either wait operation, run by a thread that keeps running: whenever a
\* step of the call is possible (a statement of the wait, the answer or the
\* failure of a pending network call, the end of a sleep), a step is taken.
LiveWaits == InitLiveWaits /\ [][NextWaits]_vars /\ WF_vars(NextWaits)

Next ==
  \/ CallRequest \/ RequestDone
  \/ TestConnectionStep
  \/ WaitJobStep \/ WaitJobsStep
  \/ UploadStep
  \/ ExtractStep
  \/ DownloadStep
  \/ RequestStep
  \/ Switch

\* Every call, alone or next to a second thread.
Spec == (Init \/ InitConcurrent) /\ [][Next]_vars

\* ------------------------------------------------ properties of _request
\* The entries of a log with the given event kind, in order.
Only(log, ev) == SelectSeq(log, LAMBDA e : e.ev = ev)

\* The attempts of a log (each ended in a failure or a response), in order.
Attempts(log) == SelectSeq(log, LAMBDA e : e.ev \in {"fail", "resp"})

\* The durations of the backoff sleeps of a log, in order.
Sleeps(log) ==
  LET sl == Only(log, "sleep") IN [i \in 1..Len(sl) |-> sl[i].d]

\* C8: once an attempt of _request has received an HTTP response (whatever
\* its status and body), the call is over: the response is the last event
\* of the call, with no later attempt and no later backoff sleep; and every
\* attempt but the first directly follows an attempt that failed at
\* transport level.
C8_NoRetryAfterResponse ==
  /\ \A i \in 1..Len(rlog) :
       rlog[i].ev = "resp" => i = Len(rlog) /\ rpc = "done"
  /\ LET att == Attempts(rlog) IN
       \A i \in 2..Len(att) : att[i - 1].ev = "fail"

\* C8 witness: a call that failed twice at transport level, slept twice and
\* then received a 500 response is over, with an API error.
C8_Witness ==
  /\ op = "request" /\ pc = "done"
  /\ Len(rlog) = 5 /\ rlog[5].ev = "resp"
  /\ response.status_code = 500
  /\ outcome = MammothAPIError(500)

\* C9: an attempt that receives status 401 ends the call at once with
\* MammothAuthError: the 401 response is the last event, no sleep follows
\* it; a 401 on the first attempt means exactly one attempt in total.
C9_AuthErrorImmediate ==
  response.status_code = 401 =>
    /\ rpc = "done"
    /\ rres = MammothAuthError
    /\ rlog[Len(rlog)].ev = "resp"
    /\ Len(Only(rlog, "resp")) = 1
    /\ Len(Attempts(rlog)) = Len(Only(rlog, "fail")) + 1
    /\ (Len(Only(rlog, "fail")) = 0 => Len(rlog) = 1)
    /\ (op = "request" /\ pc = "done" => outcome = MammothAuthError)

\* C9 witness: the first attempt received 401 and the call has raised.
C9_Witness ==
  /\ op = "request" /\ pc = "done"
  /\ response.status_code = 401
  /\ Len(rlog) = 1
  /\ outcome.exc = "MammothAuthError" /\ outcome.status_code = 401

\* The log of a call whose first k attempts fail at transport level and
\* whose attempt k+1 receives a response: k times a failure and its backoff
\* of 2^i (i from 0), then the response.
RECURSIVE ScheduleFrom(_, _)
ScheduleFrom(i, k) ==
  IF i >= k THEN << Event("resp", 0) >>
  ELSE << Event("fail", 0), Event("sleep", 2 ^ i) >> \o ScheduleFrom(i + 1, k)

\* A response of the success range whose body is empty or parses.
SuccessResponse(resp) ==
  /\ 200 <= resp.status_code /\ resp.status_code < 300
  /\ resp.content \in {"empty", "json"}

\* C10: when the first k attempts of a call fail at transport level and
\* attempt k+1 receives a success response, the call made exactly k+1
\* attempts and k sleeps, the i-th sleep (i from 0) lasting 2^i, so each
\* twice the previous one, and it returns the parsed result (the empty
\* result for an empty body or status 204).
C10_BackoffSchedule ==
  (rpc = "done" /\ SuccessResponse(response)) =>
    LET k == Len(Only(rlog, "fail")) IN
    /\ k <= max_retries
    /\ rlog = ScheduleFrom(0, k)
    /\ Len(Attempts(rlog)) = k + 1
    /\ Len(Sleeps(rlog)) = k
    /\ \A i \in 1..k : Sleeps(rlog)[i] = 2 ^ (i - 1)
    /\ \A i \in 2..k : Sleeps(rlog)[i] = 2 * Sleeps(rlog)[i - 1]
    /\ rres = IF response.status_code = 204 \/ response.content = "empty"
                THEN Return(TRUE, <<>>)
                ELSE Return(FALSE, response.data)
    /\ (op = "request" /\ pc = "done" => outcome = rres)

\* C10 witness: max_retries = 3, two connection failures, then a 200 with a
\* JSON body: 3 attempts, sleeps of 1 and 2, the body returned.
C10_Witness ==
  /\ op = "request" /\ pc = "done"
  /\ max_retries = 3
  /\ Len(Attempts(rlog)) = 3
  /\ Sleeps(rlog) = << 1, 2 >>
  /\ response.status_code = 200 /\ response.content = "json"
  /\ outcome.kind = "return" /\ outcome.data = response.data

\* Every attempt the call has made so far failed at transport level, and it
\* has made at least one.
AllAttemptsFailed ==
  /\ Len(Attempts(rlog)) >= 1
  /\ Len(Only(rlog, "fail")) = Len(Attempts(rlog))

\* C11: when every attempt of a _request call fails at transport level, the
\* call makes max_retries + 1 attempts with a backoff sleep of 2^i after
\* attempt i (i from 0) except the last, and only then raises a
\* MammothAPIError (without status code) built from the last of these
\* failures; while attempts remain nothing is raised, and the last event of
\* the call is the failed attempt, not a sleep.
C11_RetryExhaustion ==
  op = "request" =>
    /\ Len(failures) = Len(Only(rlog, "fail"))
    /\ (AllAttemptsFailed /\ Len(Attempts(rlog)) <= max_retries) =>
         rpc # "done" /\ rres = Pending /\ outcome = Pending
    /\ (AllAttemptsFailed /\ rpc = "done") =>
         /\ Len(Attempts(rlog)) = max_retries + 1
         /\ Sleeps(rlog) = [i \in 1..max_retries |-> 2 ^ (i - 1)]
         /\ rlog[Len(rlog)].ev = "fail"
         /\ rres = TransportError(failures[Len(failures)])
         /\ rres.exc = "MammothAPIError" /\ rres.status_code = 0
         /\ (pc = "done" => outcome = rres)
    /\ rres.cause # "-" => AllAttemptsFailed /\ rpc = "done"

\* C11 witness: max_retries = 2; a timeout, a second timeout and a
\* connection error, with sleeps of 1 and 2 between them, then the API
\* error built from the connection error.
C11_Witness ==
  /\ op = "request" /\ pc = "done"
  /\ max_retries = 2
  /\ failures = << "Timeout", "Timeout", "ConnectionError" >>
  /\ Sleeps(rlog) = << 1, 2 >>
  /\ outcome = TransportError("ConnectionError")

\* The cases of a received response: 401; success range with status 204 or
\* an empty body; success range otherwise, with a body that parses or does
\* not; any other status.
InSuccessRange(resp) == 200 <= resp.status_code /\ resp.status_code < 300
IsUnauthorized(resp) == resp.status_code = 401
IsNoContent(resp) ==
  InSuccessRange(resp) /\ (resp.status_code = 204 \/ resp.content = "empty")
IsParsed(resp) ==
  InSuccessRange(resp) /\ ~IsNoContent(resp) /\ resp.content = "json"
IsUnparseable(resp) ==
  InSuccessRange(resp) /\ ~IsNoContent(resp) /\ resp.content = "garbage"
IsOtherStatus(resp) == ~InSuccessRange(resp) /\ ~IsUnauthorized(resp)

\* C17: every received response ends the call with exactly one outcome:
\* 401 gives MammothAuthError; 2xx with status 204 or an empty body gives
\* the empty result; any other 2xx with a parseable body gives the parsed
\* body; 2xx with an unparseable body gives MammothAPIError with that
\* status; every other status gives MammothAPIError with that status.
\* Exactly one of the five cases applies to a response.
C17_ClassificationTotal ==
  (op = "request" /\ response # NoResponse) =>
    /\ rpc = "done"
    /\ Cardinality({ c \in 1..5 :
          \/ c = 1 /\ IsUnauthorized(response)
          \/ c = 2 /\ IsNoContent(response)
          \/ c = 3 /\ IsParsed(response)
          \/ c = 4 /\ IsUnparseable(response)
          \/ c = 5 /\ IsOtherStatus(response) }) = 1
    /\ IsUnauthorized(response) => rres = MammothAuthError
    /\ IsNoContent(response) => rres = Return(TRUE, <<>>)
    /\ IsParsed(response) => rres = Return(FALSE, response.data)
    /\ IsUnparseable(response) => rres = MammothAPIError(response.status_code)
    /\ IsOtherStatus(response) => rres = MammothAPIError(response.status_code)
    /\ (pc = "done" => outcome = rres)

\* C17 witness: a 204 response that carries a JSON body yields the empty
\* result, and the call has returned it.
C17_Witness ==
  /\ op = "request" /\ pc = "done"
  /\ response.status_code = 204 /\ response.content = "json"
  /\ outcome = Return(TRUE, <<>>)

\* The status code of an error raised by the executor (0 if there is none).
ExecutorErrorStatus(r) == IF r.kind = "raise" THEN r.status_code ELSE 0

\* C20: test_connection never raises; when the request is over it returns a
\* boolean, True exactly when the request returned a result or raised an
\* API error with status 400; so False for an authentication error, for
\* an API error with any other status and for a transport failure after
\* the last retry.
C20_TestConnectionBoolean ==
  op = "test_connection" =>
    /\ result.kind # "raise"
    /\ pc = "done" =>
         /\ rpc = "done"
         /\ result.kind = "return" /\ result.shape = "bool"
         /\ result.flag <=>
              \/ rres.kind = "return"
              \/ rres.exc = "MammothAPIError" /\ rres.status_code = 400
         /\ rres = MammothAuthError => ~result.flag
         /\ (ExecutorErrorStatus(rres) \notin {0, 400}) => ~result.flag
         /\ rres.cause # "-" => ~result.flag

\* C20 witness: the request was answered 400 and test_connection returned
\* True.
C20_Witness ==
  /\ op = "test_connection" /\ pc = "done"
  /\ response.status_code = 400
  /\ rres = MammothAPIError(400)
  /\ result = ReturnBool(TRUE)

\* -------------------------------------------- properties of wait_for_job
TerminalStatuses == {"success", "failure", "error"}

\* The wait is between rounds or over, and every status fetch it made was
\* answered with a job record (none ended in an error of the executor or in
\* an empty result).
Answered ==
  /\ pc \in {"loop", "done"}
  /\ Len(statusLog) >= 1
  /\ Len(statusLog) = Len(fetchLog)

\* All answers before the last one reported a non-terminal status.
NonTerminalBefore ==
  \A i \in 1..(Len(statusLog) - 1) : statusLog[i] \notin TerminalStatuses

\* After a non-terminal answer at poll k the wait goes on: it has slept k
\* times and is back at the deadline check, or that check has failed.
KeepsPolling ==
  /\ wsleeps = Len(statusLog)
  /\ pc = "loop" \/ outcome = MammothJobTimeoutError(job_id, timeout)

\* C1: when polls 1..k-1 report a non-terminal status (processing or a
\* status the client does not know) and poll k reports success,
\* wait_for_job returns the record of poll k after exactly k fetches and
\* k-1 sleeps; so after each non-terminal answer it keeps polling, and after
\* the success answer it neither fetches nor sleeps again.
C1_SuccessPath ==
  (op = "wait_for_job" /\ Answered /\ NonTerminalBefore) =>
    LET k == Len(statusLog) IN
    /\ statusLog[k] = "success" =>
         /\ pc = "done"
         /\ outcome = Return(FALSE, << response.data[1] >>)
         /\ Len(fetchLog) = k
         /\ wsleeps = k - 1
    /\ statusLog[k] \notin TerminalStatuses => KeepsPolling

\* C2: when the first terminal status is failure or error, reported at poll
\* k after k-1 non-terminal answers, wait_for_job raises
\* MammothJobFailedError after exactly k fetches and k-1 sleeps, the same
\* for failure and for error; after each non-terminal answer it keeps
\* polling.
C2_FailurePath ==
  (op = "wait_for_job" /\ Answered /\ NonTerminalBefore) =>
    LET k == Len(statusLog) IN
    /\ statusLog[k] \in {"failure", "error"} =>
         /\ pc = "done"
         /\ outcome.kind = "raise"
         /\ outcome.exc = "MammothJobFailedError"
         /\ outcome.job_id = job_id
         /\ Len(fetchLog) = k
         /\ wsleeps = k - 1
    /\ statusLog[k] \notin TerminalStatuses => KeepsPolling

\* C3: an answer whose status is none of processing, success, failure,
\* error is treated like processing: neither the fetch nor the wait raises,
\* the job stays pending and is polled again after the poll interval.
C3_UnknownStatusKeepsPolling ==
  (op = "wait_for_job" /\ Answered
     /\ statusLog[Len(statusLog)] \notin JobStatus) => KeepsPolling

\* Every answer reported processing.
AllProcessing == \A i \in 1..Len(statusLog) : statusLog[i] = "processing"

\* wait_for_job is over and every poll it made reported processing.
TimedOutPolling ==
  /\ op = "wait_for_job" /\ pc = "done"
  /\ timeout > 0
  /\ Answered /\ AllProcessing

\* C4 as stated: if every poll reports processing, wait_for_job raises
\* MammothJobTimeoutError and the number of fetches is within 1 of
\* floor(timeout / poll_interval).
C4_PollCountWithinOne ==
  TimedOutPolling =>
    /\ outcome = MammothJobTimeoutError(job_id, timeout)
    /\ Len(fetchLog) >= (timeout \div poll_interval) - 1
    /\ Len(fetchLog) <= (timeout \div poll_interval) + 1

\* C4 amended: if every poll reports processing, wait_for_job raises
\* MammothJobTimeoutError; it made at least one fetch and at most
\* floor(timeout / poll_interval) + 1; the sleeps plus the time spent inside
\* the fetches cover the timeout, so when the fetches take no time the
\* number of fetches is at least floor(timeout / poll_interval).
C4_PollCountBounded ==
  TimedOutPolling =>
    /\ outcome = MammothJobTimeoutError(job_id, timeout)
    /\ Len(fetchLog) >= 1
    /\ Len(fetchLog) <= (timeout \div poll_interval) + 1
    /\ wsleeps = Len(fetchLog)
    /\ Len(fetchLog) * poll_interval + fetchTime >= timeout
    /\ fetchTime = 0 => Len(fetchLog) >= timeout \div poll_interval

\* C4 witness: timeout 3, poll interval 1; the only fetch spent 3 ticks in
\* retry backoff before it was answered processing, and the wait timed out
\* after that single fetch.
C4_Witness ==
  /\ TimedOutPolling
  /\ timeout = 3 /\ poll_interval = 1
  /\ Len(fetchLog) = 1
  /\ fetchTime >= 3
  /\ outcome.exc = "MammothJobTimeoutError"

\* wait_for_job has raised MammothJobTimeoutError.
JobTimedOut ==
  /\ op = "wait_for_job" /\ pc = "done"
  /\ outcome.kind = "raise" /\ outcome.exc = "MammothJobTimeoutError"

\* Clock ticks since the wait started, and by how many they exceed the
\* timeout.
Elapsed == now - start_time
Overrun == Elapsed - timeout

\* Clock ticks the last status fetch of a timed-out wait took (it was
\* followed by one poll-interval sleep and the failed deadline check).
LastFetchTime == now - poll_interval - fetchStart

\* C16 as stated: whenever wait_for_job raises MammothJobTimeoutError the
\* time elapsed since the call started exceeds the timeout by at most one
\* poll interval.
C16_OverrunWithinPollInterval ==
  JobTimedOut => Overrun <= poll_interval

\* C16 amended: whenever wait_for_job raises MammothJobTimeoutError, the
\* elapsed time is at least the timeout; if no poll was made it is 0; else
\* it exceeds the timeout by less than one poll interval plus the time the
\* last status fetch took (network time and retry backoff); so with fetches
\* that take no time and a timeout that is not negative the overrun is at
\* most one poll interval.
C16_OverrunBounded ==
  JobTimedOut =>
    /\ outcome = MammothJobTimeoutError(job_id, timeout)
    /\ Elapsed >= timeout
    /\ Elapsed = wsleeps * poll_interval + fetchTime
    /\ rounds = 0 => Elapsed = 0
    /\ rounds > 0 =>
         /\ LastFetchTime >= 0 /\ LastFetchTime <= fetchTime
         /\ Overrun < poll_interval + LastFetchTime
    /\ (fetchTime = 0 /\ timeout >= 0) => Overrun <= poll_interval

\* C16 witness: timeout 1, poll interval 1; the only fetch retried with
\* backoff and took at least 3 ticks, so the wait timed out more than one
\* poll interval late.
C16_Witness ==
  /\ JobTimedOut
  /\ timeout = 1 /\ poll_interval = 1
  /\ rounds = 1 /\ LastFetchTime >= 3
  /\ Overrun > poll_interval

\* ------------------------------------------- properties of wait_for_jobs
\* The last status fetch was answered with a list of job records.
LastAnswer == IF rres.kind = "return" /\ ~rres.empty THEN rres.data ELSE <<>>

\* The identifiers the last answer reported as failed.
FailedIn(jobs) ==
  { jobs[i].id : i \in { n \in 1..Len(jobs) :
                           jobs[n].status \in {"failure", "error"} } }

\* C5: as soon as a round's answer contains a job with status failure or
\* error, wait_for_jobs raises MammothJobFailedError for such a job,
\* whatever the other records of the answer are; it makes no further fetch
\* and no further sleep and returns no records.
C5_BatchFailFast ==
  (op = "wait_for_jobs" /\ pc \in {"loop", "done"}
     /\ FailedIn(LastAnswer) # {}) =>
    /\ pc = "done"
    /\ outcome.kind = "raise"
    /\ outcome.exc = "MammothJobFailedError"
    /\ outcome.job_id \in FailedIn(LastAnswer)
    /\ wsleeps = Len(fetchLog) - 1

\* C6: wait_for_jobs makes exactly one status request per round, for
\* exactly the identifiers pending at the start of the round; e.g. with job
\* 1 done in round 1 and job 2 in round 2 it returns both records after
\* exactly 2 fetches.
C6_OneBatchedFetchPerRound ==
  op = "wait_for_jobs" =>
    /\ Len(fetchLog) = rounds
    /\ pc = "fetching" => fetchLog[Len(fetchLog)] = remaining_job_ids
    /\ (pc = "done" /\ outcome.kind = "return") =>
         /\ Len(fetchLog) = wsleeps + (IF rounds = 0 THEN 0 ELSE 1)
         /\ Len(outcome.data) <= Len(job_ids)
    /\ (pc = "done" /\ outcome.kind = "return" /\ job_ids = << 1, 2 >>
          /\ rounds = 2 /\ fetchLog[2] = << 2 >>) =>
         /\ fetchLog = << << 1, 2 >>, << 2 >> >>
         /\ Len(outcome.data) = 2
         /\ outcome.data[1].id = 1 /\ outcome.data[2].id = 2

\* C6 witness: jobs 1 and 2, job 1 done in round 1 and job 2 in round 2:
\* two fetches, both records returned.
C6_Witness ==
  /\ op = "wait_for_jobs" /\ pc = "done"
  /\ job_ids = << 1, 2 >>
  /\ outcome.kind = "return" /\ Len(outcome.data) = 2
  /\ fetchLog = << << 1, 2 >>, << 2 >> >>

\* C7: an identifier that was observed with status success, failure or
\* error is in the identifier list of no later status fetch of the wait.
C7_NoRepollAfterTerminal ==
  pc = "fetching" =>
    \A id \in Range(fetchLog[Len(fetchLog)]) : id \notin observedTerminal

\* C15: wait_for_jobs returns only with an empty pending list, and then
\* returns the completed list; when it raises MammothJobTimeoutError the
\* deadline check has failed with a non-empty pending list, the error's
\* job_id is the first identifier of the pending list, an identifier that
\* was never observed with status success, and its timeout is the caller's
\* timeout.
C15_BatchTermination ==
  (op = "wait_for_jobs" /\ pc = "done") =>
    /\ outcome.kind = "return" =>
         /\ remaining_job_ids = <<>>
         /\ outcome.data = completed_jobs
    /\ (outcome.kind = "raise" /\ outcome.exc = "MammothJobTimeoutError") =>
         /\ Truthy(remaining_job_ids) /\ ~BeforeDeadline
         /\ outcome.job_id = remaining_job_ids[1]
         /\ outcome.timeout = timeout
         /\ outcome.job_id \notin observedTerminal
    /\ (~Truthy(remaining_job_ids) /\ outcome.kind = "raise") =>
         outcome.exc # "MammothJobTimeoutError"

\* The lists of wait_for_jobs after the first k records of the answer went
\* through the for loop.
AfterRecords(k) ==
  ProcessJobs(SubSeq(GetJobs(rres).data, 1, k), 1,
              [completed |-> completed_jobs, remaining |-> remaining_job_ids,
               seen |-> observedTerminal, exc |-> Pending])

\* The completed and the pending list together are as long as the input
\* list, and every completed record has status success.
Balanced(completed, remaining) ==
  /\ Len(completed) + Len(remaining) = Len(job_ids)
  /\ \A i \in 1..Len(completed) : completed[i].status = "success"

C28_CallersListUnchanged ==
  /\ [][op = "wait_for_jobs" => job_ids' = job_ids]_vars
  /\ [](op = "wait_for_jobs" =>
         /\ fetchLog # <<>> => fetchLog[1] = job_ids
         /\ pc = "done" =>
              Len(job_ids) >= Len(remaining_job_ids))

\* C28 witness: wait_for_jobs([1, 2]) completed job 1 in round 1 and raised
\* job-failed for job 2 in round 2; the working list is [2], the caller's
\* list still [1, 2].
C28_Witness ==
  /\ op = "wait_for_jobs" /\ pc = "done"
  /\ job_ids = << 1, 2 >>
  /\ remaining_job_ids = << 2 >>
  /\ outcome.exc = "MammothJobFailedError" /\ outcome.job_id = 2

\* The errors of the SDK's taxonomy a wait may raise.
TaxonomyErrors ==
  {"MammothJobFailedError", "MammothJobTimeoutError", "MammothAuthError",
   "MammothAPIError"}

\* C30: whatever validated job records a batched answer holds (records for
\* identifiers that are not pending, an identifier twice, any order),
\* wait_for_jobs returns or raises job-failed, job-timeout, an
\* authentication error or an API error, never another kind of error.
C30_OnlyTaxonomyErrors ==
  (op = "wait_for_jobs" /\ pc = "done" /\ outcome.kind = "raise"
     /\ GetJobs(rres).kind # "raise") =>
    outcome.exc \in TaxonomyErrors

\* The identifiers of a list of job records, in order.
IdsOf(jobs) == [i \in 1..Len(jobs) |-> jobs[i].id]

\* C13: the records wait_for_jobs returns are in the order of the submitted
\* identifiers: the i-th record is the record of the i-th identifier, in
\* whatever round each job completed and in whatever order the records
\* came inside an answer.
C13_OutputInInputOrder ==
  (op = "wait_for_jobs" /\ pc = "done" /\ outcome.kind = "return") =>
    IdsOf(outcome.data) = job_ids

\* ------------------------------------------- properties of upload_files
\* upload_files was called with wait_for_completion=True and has returned
\* normally.
UploadReturned ==
  /\ op = "upload_files" /\ pc = "returned"
  /\ wait_for_completion
  /\ result.kind = "return"

\* C12: upload_files with wait_for_completion=True returns, for one file, a
\* scalar dataset identifier or None; for N > 1 files that all got a job and
\* whose jobs all succeeded, a list of exactly N elements, element i being
\* the ds_id of the i-th completed record's payload, or None (0) where the
\* payload has none.
C12_UploadResultShape ==
  UploadReturned =>
    /\ Len(files) = 1 => result.shape \in {"scalar", "none"}
    /\ (Len(files) > 1 /\ Len(job_ids) = Len(files)
          /\ outcome.kind = "return") =>
         /\ result.shape = "list"
         /\ Len(result.ids) = Len(files)
         /\ result.ids = ExtractDatasetIds(outcome.data)

\* Every record of the list has status success.
AllSuccess(jobs) == \A i \in 1..Len(jobs) : jobs[i].status = "success"

\* C14: wait_for_jobs returns normally only if every identifier it was given
\* was observed with status success, and then all its records have status
\* success; upload_files with wait_for_completion=True returns normally
\* only if every file got a job identifier and wait_for_jobs returned
\* normally for these identifiers.
C14_NoPartialSuccess ==
  /\ (InWaitForJobs /\ pc \in {"done", "returned"}
        /\ outcome.kind = "return") =>
       /\ Range(job_ids) \subseteq observedTerminal
       /\ Len(outcome.data) = Len(job_ids)
       /\ AllSuccess(outcome.data)
  /\ UploadReturned =>
       /\ outcome.kind = "return"
       /\ Len(job_ids) = Len(files)

\* The job_id entries of the records that have one, in order.
RECURSIVE NonNullJobIds(_)
NonNullJobIds(objs) ==
  IF objs = <<>> THEN <<>>
  ELSE IF Head(objs).job_id = 0 THEN NonNullJobIds(Tail(objs))
  ELSE << Head(objs).job_id >> \o NonNullJobIds(Tail(objs))

AsWhenAlone ==
  /\ op = "wait_for_job" =>
       /\ fetchLog = [i \in 1..rounds |-> << job_id >>]
       /\ (pc = "done" /\ rounds = 0) =>
            outcome = MammothJobTimeoutError(job_id, timeout)
       /\ (pc = "done" /\ rounds > 0) =>
            LET got == GetJob(rres) IN
            outcome =
              IF got.kind = "raise" THEN got
              ELSE IF got.data[1].status = "success"
                THEN Return(FALSE, << got.data[1] >>)
              ELSE IF got.data[1].status \in {"failure", "error"}
                THEN MammothJobFailedError(job_id, FailureReason(got.data[1]))
              ELSE MammothJobTimeoutError(job_id, timeout)
  /\ op = "wait_for_jobs" =>
       /\ Len(fetchLog) = rounds
       /\ \A i \in 1..Len(fetchLog) : Range(fetchLog[i]) \subseteq Range(job_ids)
       /\ pc = "fetching" => fetchLog[Len(fetchLog)] = remaining_job_ids
       /\ (pc = "done" /\ rounds > 0 /\ GetJobs(rres).kind = "raise") =>
            outcome = GetJobs(rres)
       /\ (pc = "done" /\ outcome.kind = "return") =>
            outcome.data = completed_jobs /\ remaining_job_ids = <<>>
       /\ (pc = "done" /\ outcome.exc = "MammothJobTimeoutError") =>
            outcome = MammothJobTimeoutError(remaining_job_ids[1], timeout)
       /\ (pc = "done" /\ outcome.exc = "MammothJobFailedError") =>
            outcome.job_id \in FailedIn(LastAnswer)

\* C18: with two calls interleaved on one client, every step leaves the
\* session's headers and the client's max_retries as they were; a step of
\* the running call leaves the locals of the other call (its pending list,
\* completed list, retry counter and all the rest) untouched, and a thread
\* that goes on finds its own locals exactly as it left them; so each wait
\* fetches and ends as it does in a run of its own.
C18_WaitsIndependent ==
  /\ []AsWhenAlone
  /\ [][ /\ session' = session
         /\ max_retries' = max_retries
         /\ \/ parked' = parked
            \/ parked' = Locals /\ Locals' = parked ]_vars

\* C18 witness: the wait for job 2 and the wait for job 1 are both inside a
\* status fetch, each in the backoff sleep after a transport failure of
\* its own.
C18_Witness ==
  /\ op = "wait_for_jobs" /\ job_ids = << 2 >>
  /\ pc = "fetching" /\ rpc = "backoff"
  /\ parked.op = "wait_for_job" /\ parked.job_id = 1
  /\ parked.pc = "fetching" /\ parked.rpc = "backoff"
  /\ parked.last_exception # last_exception

\* The sleeps a wait_for_jobs has made if it slept once after every round
\* that left jobs pending: every round before the last one did, so the last
\* one decides.
SleepsIfPending ==
  (rounds - 1) + (IF Truthy(remaining_job_ids) THEN 1 ELSE 0)

\* A round of wait_for_jobs ends with this step.
RoundEnds == pc = "fetching" /\ pc' # "fetching"

\* C21 as stated: after each round wait_for_jobs has slept once if and only
\* if the pending list is non-empty after that round, and a successful wait
\* of r rounds has made exactly r-1 sleeps.
C21_SleepIffPending ==
  (op = "wait_for_jobs" /\ pc \in {"loop", "done"}) =>
    /\ rounds >= 1 => wsleeps = SleepsIfPending
    /\ outcome.kind = "return" => wsleeps = rounds - 1

\* C21 amended: a round that ends without an exception is followed by one
\* sleep of the poll interval if the pending list is non-empty after it and
\* by no sleep if it is empty; a round that ends in an exception (job-failed,
\* an error of the executor or of the validation, the ValueError of
\* list.remove) is followed by no sleep whatever is pending; no other step of
\* the wait sleeps.  So a successful wait of r >= 1 rounds makes exactly r-1
\* sleeps, and a wait for an empty list makes no round and no sleep.
C21_SleepDiscipline ==
  /\ [](op = "wait_for_jobs" =>
         /\ pc = "fetching" => wsleeps = rounds - 1
         /\ (pc = "loop" /\ rounds >= 1) => wsleeps = SleepsIfPending
         /\ (pc = "done" /\ outcome.kind = "return") =>
              /\ rounds = 0 <=> job_ids = <<>>
              /\ wsleeps = IF rounds = 0 THEN 0 ELSE rounds - 1
         /\ (pc = "done" /\ outcome.kind = "raise") =>
              wsleeps = IF outcome.exc = "MammothJobTimeoutError"
                          THEN rounds ELSE rounds - 1)
  /\ [][op = "wait_for_jobs" =>
          IF RoundEnds /\ pc' = "loop" /\ Truthy(remaining_job_ids')
            THEN wsleeps' = wsleeps + 1 /\ now' = now + poll_interval
            ELSE /\ wsleeps' = wsleeps
                 /\ RoundEnds => now' = now]_vars

\* C21 witness: a wait for jobs 1 and 2 returned after two rounds and one
\* sleep: round 1 completed nothing and was followed by the sleep, round 2
\* completed both jobs and was followed by none.
C21_Witness ==
  /\ op = "wait_for_jobs" /\ pc = "done"
  /\ job_ids = << 1, 2 >>
  /\ outcome.kind = "return"
  /\ rounds = 2 /\ wsleeps = 1
  /\ now = poll_interval
  /\ fetchLog = << << 1, 2 >>, << 1, 2 >> >>

\* ------------------------------------------------ properties of both waits
RECURSIVE SumSeq(_)
SumSeq(seq) == IF seq = <<>> THEN 0 ELSE Head(seq) + SumSeq(Tail(seq))

\* C29: wait_for_job and wait_for_jobs eventually return or raise, whatever
\* the timeout, the poll interval (at least 1) and the answers are, a job
\* that reports processing forever included; by then every _request call
\* that was started has ended, and none has made more than max_retries + 1
\* attempts.
C29_WaitsTerminate ==
  /\ <>(pc = "done")
  /\ [](pc = "done" =>
         /\ outcome.kind \in {"return", "raise"}
         /\ rpc \in {"idle", "done"}
         /\ Len(attemptLog) = rounds)
  /\ [](\A i \in 1..Len(attemptLog) : attemptLog[i] <= max_retries + 1)

\* C29 witness: a wait_for_job whose polls all reported processing has
\* raised job-timeout after three polls.
C29_Witness ==
  /\ op = "wait_for_job" /\ pc = "done"
  /\ statusLog = << "processing", "processing", "processing" >>
  /\ outcome = MammothJobTimeoutError(job_id, timeout)

\* C26: every status fetch of a wait is one _request call with a retry
\* budget of its own: the call starts at attempt 0, makes at most
\* max_retries + 1 attempts, and its i-th backoff sleep (i from 0) lasts 2^i
\* whatever happened in the earlier fetches; so the HTTP attempts of the
\* wait are at most (number of fetches) x (max_retries + 1).
C26_RetryBudgetPerCall ==
  op \in {"wait_for_job", "wait_for_jobs"} =>
    /\ Len(attemptLog) = Len(fetchLog)
    /\ \A i \in 1..Len(attemptLog) :
         attemptLog[i] >= 0 /\ attemptLog[i] <= max_retries + 1
    /\ SumSeq(attemptLog) <= Len(fetchLog) * (max_retries + 1)
    /\ pc = "fetching" =>
         /\ attemptLog[Len(attemptLog)] = Len(Attempts(rlog))
         /\ rlog = <<>> => attempt = 0
         /\ rpc = "loop" => attempt = Len(Only(rlog, "fail"))
         /\ rpc = "backoff" => attempt = Len(Only(rlog, "fail")) - 1
         /\ \A i \in 1..Len(Sleeps(rlog)) : Sleeps(rlog)[i] = 2 ^ (i - 1)

\* C26 witness: max_retries = 1; the first and the second status fetch of a
\* wait_for_job each failed once, slept 1 and were answered at the second
\* attempt: 4 attempts in 2 fetches.
C26_Witness ==
  /\ op = "wait_for_job" /\ pc = "fetching" /\ rpc = "done"
  /\ max_retries = 1
  /\ Len(fetchLog) = 2
  /\ attemptLog = << 2, 2 >>
  /\ Sleeps(rlog) = << 1 >>

\* The result is an error raised by the executor: MammothAuthError or
\* MammothAPIError (with a status code, or built from a transport failure).
ExecutorError(r) ==
  r.kind = "raise" /\ r.exc \in {"MammothAuthError", "MammothAPIError"}

\* C19: when a status fetch of wait_for_job or wait_for_jobs ends in an
\* authentication error or an API error (a transport failure after the
\* last retry included), the wait raises that very error: it never goes
\* back to the deadline check or to another fetch, and it has slept only
\* after the earlier fetches, not after this one.
C19_ExecutorErrorAbortsWait ==
  (op \in {"wait_for_job", "wait_for_jobs"} /\ rpc = "done"
     /\ ExecutorError(rres)) =>
    /\ pc \in {"fetching", "done"}
    /\ pc = "done" =>
         /\ outcome = rres
         /\ wsleeps = Len(fetchLog) - 1
         /\ rounds = Len(fetchLog)

\* C19 witness: the second round of a wait_for_jobs ran out of retries on
\* transport failures, and the wait raised that API error.
C19_Witness ==
  /\ op = "wait_for_jobs" /\ pc = "done"
  /\ Len(fetchLog) = 2
  /\ max_retries = 1 /\ Len(Only(rlog, "fail")) = 2
  /\ outcome = TransportError("Timeout")

\* The index of the first record with status failure or error (0 if none).
FirstFailed(jobs) ==
  IF \E i \in 1..Len(jobs) : jobs[i].status \in {"failure", "error"}
    THEN CHOOSE i \in 1..Len(jobs) :
           /\ jobs[i].status \in {"failure", "error"}
           /\ \A j \in 1..(i - 1) : jobs[j].status \notin {"failure", "error"}
    ELSE 0

\* The failure_reason entry of a payload, None ("None") if it has none.
ReasonEntry(payload) == payload.failure_reason

\* The wait has raised MammothJobFailedError.
JobFailed ==
  pc = "done" /\ outcome.kind = "raise" /\ outcome.exc = "MammothJobFailedError"

\* C22: the MammothJobFailedError of wait_for_job carries the caller's
\* job_id (whatever id the record has), the one of wait_for_jobs the id of
\* the failing record (the first record of the answer with status failure or
\* error); in both the failure_reason is the failure_reason entry of that
\* record's payload, None if the payload has none; the error carries
\* nothing else.
C22_JobFailedContents ==
  /\ (op = "wait_for_job" /\ JobFailed) =>
       LET job == LastAnswer[1] IN
       /\ job.status \in {"failure", "error"}
       /\ outcome.job_id = job_id
       /\ outcome.failure_reason = ReasonEntry(job.response)
       /\ outcome = MammothJobFailedError(job_id, ReasonEntry(job.response))
  /\ (op = "wait_for_jobs" /\ JobFailed) =>
       /\ FirstFailed(LastAnswer) # 0
       /\ LET job == LastAnswer[FirstFailed(LastAnswer)] IN
            /\ outcome.job_id = job.id
            /\ outcome.failure_reason = ReasonEntry(job.response)
            /\ outcome = MammothJobFailedError(job.id, ReasonEntry(job.response))

\* C22 witness: wait_for_job(1) was answered with the record of job 2, in
\* status error with a failure_reason; the error names job 1 and that
\* reason.
C22_Witness ==
  /\ op = "wait_for_job" /\ job_id = 1 /\ JobFailed
  /\ LastAnswer[1].id = 2 /\ LastAnswer[1].status = "error"
  /\ outcome = MammothJobFailedError(1, "disk full")

\* ------------------------------------ properties of extract_dataset_ids
\* The ds_id entry of a payload, None (0) if it has none.
DsIdEntry(payload) == payload.ds_id

\* C23: for every list of job records extract_dataset_ids returns, without
\* raising, a list of the same length whose element i is the ds_id entry of
\* record i's payload, None (0) where the payload has none; while it runs
\* the list built so far is that of the records taken so far.
C23_ExtractPositionPreserving ==
  op = "extract_dataset_ids" =>
    /\ result.kind # "raise"
    /\ Len(dataset_ids) = job_index /\ job_index <= Len(jobs_arg)
    /\ \A i \in 1..job_index : dataset_ids[i] = DsIdEntry(jobs_arg[i].response)
    /\ pc = "returned" =>
         /\ result.kind = "return" /\ result.shape = "list"
         /\ Len(result.ids) = Len(jobs_arg)
         /\ \A i \in 1..Len(jobs_arg) :
              result.ids[i] = DsIdEntry(jobs_arg[i].response)
         /\ result.ids = ExtractDatasetIds(jobs_arg)

\* C23 witness: three records, the second without ds_id: the result is
\* [7, None, 7].
C23_Witness ==
  /\ op = "extract_dataset_ids" /\ pc = "returned"
  /\ Len(jobs_arg) = 3
  /\ jobs_arg[2].response.ds_id = 0
  /\ result = ReturnList(<< 7, 0, 7 >>)

\* ---------------------------------- properties of download_dataview_csv
\* No status fetch has been made yet, so the last _request call is the
\* submission, and it is over.
SubmissionOver ==
  /\ pc \notin {"start", "submitting"}
  /\ fetchLog = <<>>

\* The submission was accepted but yielded no job identifier.
NoJobIdentifier ==
  /\ SubmissionOver
  /\ AddExport(rres).kind = "return"
  /\ ExportJobId(AddExport(rres).data[1]) = 0

\* wait_for_job has returned a record to download_dataview_csv.
WaitReturned ==
  pc \in {"done", "downloading", "returned"} /\ outcome.kind = "return"

\* The record's response payload has no url entry.
LacksUrl(job) == job.response.url = "None"

ValueErrorRaised == result = Propagate(Raise("ValueError", 0))

\* C24: download_dataview_csv submits, then waits, then downloads: no status
\* fetch and no download before the submission is over; status fetches only
\* for the job identifier the submission yielded; without one, ValueError
\* and no status fetch; when wait_for_job returns a record without url,
\* ValueError and no download request; a download request is made (once)
\* only after wait_for_job returned a success record with url, and only then
\* does the operation return.
C24_DownloadStepOrder ==
  op = "download_dataview_csv" =>
    /\ pc \in {"start", "submitting"} =>
         fetchLog = <<>> /\ rounds = 0 /\ downloads = 0 /\ job_id = 0
    /\ fetchLog # <<>> =>
         /\ job_id # 0
         /\ \A i \in 1..Len(fetchLog) : fetchLog[i] = << job_id >>
    /\ (SubmissionOver /\ AddExport(rres).kind = "raise") =>
         pc = "returned" /\ result = Propagate(AddExport(rres))
    /\ NoJobIdentifier =>
         pc = "returned" /\ ValueErrorRaised /\ rounds = 0 /\ downloads = 0
    /\ (SubmissionOver /\ AddExport(rres).kind = "return") =>
         job_id = ExportJobId(AddExport(rres).data[1])
    /\ WaitReturned =>
         /\ outcome.data[1].status = "success"
         /\ rounds >= 1
         /\ LacksUrl(outcome.data[1]) =>
              /\ pc # "downloading" /\ downloads = 0
              /\ pc = "returned" => ValueErrorRaised
    /\ downloads <= 1
    /\ (downloads = 1 \/ pc = "downloading") =>
         /\ WaitReturned
         /\ ~LacksUrl(outcome.data[1])
         /\ job_id # 0
    /\ downloads = 1 <=> (pc = "returned" /\ WaitReturned
                            /\ ~LacksUrl(outcome.data[1]))
    /\ ValueErrorRaised =>
         NoJobIdentifier \/ (WaitReturned /\ LacksUrl(outcome.data[1]))
    /\ result.kind = "return" => result = ReturnPath /\ downloads = 1

\* C24 witness: the submission gave a job, the first poll reported
\* processing, the second success with a payload without url: ValueError,
\* after two status fetches and no download.
C24_Witness ==
  /\ op = "download_dataview_csv" /\ pc = "returned"
  /\ job_id # 0
  /\ Len(fetchLog) = 2
  /\ outcome.kind = "return" /\ LacksUrl(outcome.data[1])
  /\ ValueErrorRaised /\ downloads = 0

\* ------------------------------------------- properties of the edge inputs
\* The sleeps of the running _request call.
BackoffSleeps == { i \in 1..Len(rlog) : rlog[i].ev = "sleep" }

\* C31: for every configured max_retries, 0 and negative values included, a
\* _request call that has ended made at least one attempt and returned a
\* result or raised an authentication or API error; with max_retries = 0 it
\* made exactly one attempt and no sleep.
C31_EveryRetryConfiguration ==
  (op = "request" /\ rpc = "done") =>
    /\ attemptLog[Len(attemptLog)] >= 1
    /\ \/ rres.kind = "return"
       \/ rres.kind = "raise"
            /\ rres.exc \in {"MammothAuthError", "MammothAPIError"}
    /\ max_retries = 0 =>
         attemptLog[Len(attemptLog)] = 1 /\ BackoffSleeps = {}

\* C32: wait_for_jobs with an empty identifier list returns an empty list at
\* once, with no status fetch, no executor call and no sleep, whatever the
\* timeout (0 included), and never raises job-timeout.
C32_EmptyBatch ==
  (op = "wait_for_jobs" /\ job_ids = <<>>) =>
    /\ fetchLog = <<>> /\ rounds = 0 /\ attemptLog = <<>> /\ rpc = "idle"
    /\ wsleeps = 0 /\ now = 0
    /\ pc \in {"start", "loop", "done"}
    /\ pc # "done" => outcome = Pending
    /\ pc = "done" => outcome = Return(FALSE, <<>>)

\* C32 witness: the empty list with timeout 0: the call has returned [].
C32_Witness ==
  /\ op = "wait_for_jobs" /\ job_ids = <<>> /\ timeout = 0
  /\ pc = "done"
  /\ outcome.kind = "return" /\ outcome.data = <<>>

\* C33: with timeout <= 0, wait_for_job, and wait_for_jobs with a non-empty
\* list, make no status fetch, no executor call and no sleep, and end in
\* MammothJobTimeoutError, which names the job of wait_for_job or the first
\* input identifier of wait_for_jobs, whatever the server would have said.
C33_NonPositiveTimeout ==
  (/\ op \in {"wait_for_job", "wait_for_jobs"}
   /\ timeout <= 0
   /\ op = "wait_for_jobs" => job_ids # <<>>) =>
    /\ fetchLog = <<>> /\ rounds = 0 /\ attemptLog = <<>> /\ rpc = "idle"
    /\ wsleeps = 0
    /\ pc \in {"start", "loop", "done"}
    /\ pc # "done" => outcome = Pending
    /\ pc = "done" =>
         outcome = MammothJobTimeoutError(
                     IF op = "wait_for_job" THEN job_id ELSE job_ids[1],
                     timeout)

\* C33 witness: wait_for_jobs([2, 1], timeout=0) has raised job-timeout for
\* job 2 without a fetch.
C33_Witness ==
  /\ op = "wait_for_jobs" /\ job_ids = << 2, 1 >> /\ timeout = 0
  /\ pc = "done" /\ fetchLog = <<>>
  /\ outcome.exc = "MammothJobTimeoutError" /\ outcome.job_id = 2

\* A success record was processed for this identifier during the wait.
SuccessObserved(id) ==
  \E i \in 1..Len(completed_jobs) : completed_jobs[i].id = id

\* The last poll of wait_for_job was answered with a valid success record.
SuccessFetched ==
  /\ rounds >= 1
  /\ GetJob(rres).kind = "return"
  /\ GetJob(rres).data[1].status = "success"

\* The state invariants of C34.
TerminalBeforeDeadline ==
  /\ (op = "wait_for_job" /\ pc = "done" /\ SuccessFetched) =>
       outcome = Return(FALSE, GetJob(rres).data)
  /\ (op = "wait_for_job" /\ pc = "done"
        /\ outcome.exc = "MammothJobTimeoutError") =>
       /\ now - start_time >= timeout
       /\ ~SuccessFetched
       /\ "success" \notin Range(statusLog)
  /\ (op = "wait_for_jobs" /\ pc = "done"
        /\ outcome.exc = "MammothJobTimeoutError") =>
       /\ now - start_time >= timeout
       /\ remaining_job_ids # <<>>
       /\ \A i \in 1..Len(remaining_job_ids) :
            ~SuccessObserved(remaining_job_ids[i])

\* C34: a poll of wait_for_job answered with success returns the record, and
\* a round of wait_for_jobs that leaves the pending list empty is followed
\* by the return of the completed records, also when the deadline has passed
\* by then; job-timeout is raised only at a deadline check that fails, and
\* then no success has been observed for any job still pending.
C34_TerminalPrecedesDeadline ==
  /\ []TerminalBeforeDeadline
  /\ [][(op = "wait_for_jobs" /\ pc = "loop" /\ remaining_job_ids = <<>>) =>
          (pc' = "done" /\ outcome' = Return(FALSE, completed_jobs))]_vars

\* How often x occurs in a list.
Count(seq, x) == Cardinality({ i \in 1..Len(seq) : seq[i] = x })

\* The records of the answer the running round got (none if get_jobs
\* raised).
RoundAnswer == IF GetJobs(rres).kind = "return" THEN GetJobs(rres).data ELSE <<>>

\* The pending identifiers the running round's answer has no record of.
Omitted == Range(remaining_job_ids) \ Range(IdsOf(RoundAnswer))

\* The step in which wait_for_jobs processes a round's answer leaves every
\* omitted identifier pending, as often as it was, and adds no record of it
\* to the completed list.
OmittedStaysPending ==
  (op = "wait_for_jobs" /\ pc = "fetching" /\ pc' # "fetching") =>
    \A id \in Omitted :
      /\ Count(remaining_job_ids', id) = Count(remaining_job_ids, id)
      /\ Count(IdsOf(completed_jobs'), id) = Count(IdsOf(completed_jobs), id)

\* The step that starts a round asks for all pending identifiers.
PendingAskedAgain ==
  (op = "wait_for_jobs" /\ pc = "loop" /\ pc' = "fetching") =>
    /\ fetchLog' = Append(fetchLog, remaining_job_ids)
    /\ remaining_job_ids' = remaining_job_ids

\* The only round of the wait is over and its answer had no record of some
\* input identifier, or there was no round at all.
NeverReported ==
  /\ op = "wait_for_jobs" /\ pc = "done" /\ job_ids # <<>>
  /\ \/ rounds = 0
     \/ rounds = 1 /\ GetJobs(rres).kind = "return"
          /\ Range(job_ids) \ Range(IdsOf(RoundAnswer)) # {}

\* A normal return of wait_for_jobs has a success record of every input
\* identifier.
ReturnHasAll ==
  (op = "wait_for_jobs" /\ pc = "done" /\ outcome.kind = "return") =>
    \A i \in 1..Len(job_ids) : SuccessObserved(job_ids[i])

\* C35 as stated: an identifier a status answer has no record of stays
\* pending and is asked for again in the next round, is never counted as
\* completed, and if it is never reported the wait ends in job-timeout
\* (checked where every record of the answer was of a pending identifier,
\* so that no removal raised).
C35_OmittedJobTimesOut ==
  /\ [][OmittedStaysPending]_vars
  /\ [][PendingAskedAgain]_vars
  /\ []ReturnHasAll
  /\ []((NeverReported /\ outcome.exc # "ValueError") =>
          outcome.exc = "MammothJobTimeoutError")

\* C35, amended: an identifier a status answer has no record of stays
\* pending and is asked for again in the next round, if there is one, and is
\* never counted as completed; if it is never reported the wait does not
\* return normally: it ends in job-timeout at the deadline check with that
\* identifier still pending, unless a round's answer made the wait raise
\* before (job-failed for another job, or the ValueError of a record that
\* is not pending).
C35_OmittedJobNeverReturned ==
  /\ [][OmittedStaysPending]_vars
  /\ [][PendingAskedAgain]_vars
  /\ []ReturnHasAll
  /\ [](NeverReported =>
          /\ outcome.kind = "raise"
          /\ Range(job_ids) \ Range(IdsOf(RoundAnswer)) \subseteq
               Range(remaining_job_ids)
          /\ outcome.exc \in
               {"MammothJobTimeoutError", "MammothJobFailedError", "ValueError"}
          /\ outcome.exc = "MammothJobFailedError" =>
               outcome.job_id \in FailedIn(RoundAnswer)
          /\ outcome.exc = "MammothJobTimeoutError" =>
               now - start_time >= timeout)

\* C35 witness: wait_for_jobs([1, 2]); the only round's answer had the
\* success record of job 1 and nothing about job 2; the wait slept, met the
\* deadline and raised job-timeout for job 2, still pending.
C35_Witness ==
  /\ op = "wait_for_jobs" /\ pc = "done" /\ job_ids = << 1, 2 >>
  /\ rounds = 1 /\ wsleeps = 1
  /\ IdsOf(RoundAnswer) = << 1 >>
  /\ IdsOf(completed_jobs) = << 1 >>
  /\ remaining_job_ids = << 2 >>
  /\ outcome = MammothJobTimeoutError(2, timeout)

\* The positions of the records with status failure or error.
FailedAt(jobs) ==
  { i \in 1..Len(jobs) : jobs[i].status \in {"failure", "error"} }

\* The records of the last answer as they came on the wire.
WireAnswer == IF rres.kind = "return" THEN rres.data ELSE <<>>

\* C36: when one batched answer holds several records with status failure
\* or error, wait_for_jobs raises MammothJobFailedError for the first of them
\* in the answer's order, and no record after it is processed (the completed
\* list has grown by success records that came before it only); the error
\* is a function of the inputs and the answers.
C36_FirstFailureSelected ==
  (/\ op = "wait_for_jobs" /\ pc = "done" /\ rounds >= 1
   /\ Cardinality(FailedAt(WireAnswer)) >= 2) =>
    LET first == FirstFailed(WireAnswer)
        job == WireAnswer[first] IN
    /\ outcome = MammothJobFailedError(job.id, ReasonEntry(job.response))
    /\ \A i \in 1..Len(completed_jobs) :
         \E k \in 1..(first - 1) : completed_jobs[i] = WireAnswer[k]

\* ------------------------------------------ properties of the file handles
\* The paths upload_files has opened itself.
OpenedPaths == { i \in 1..Len(files) : files[i] = "path" /\ i \in Range(opened_files) }

\* upload_files is past its finally block: it waits on jobs, has returned or
\* has raised.
PastFinally == pc \in {"call_wait", "loop", "fetching", "done", "returned"}

\* C37: every file upload_files opened from a path is closed before it
\* starts waiting on jobs, returns or raises, whether the submission
\* succeeded, raised, or a later path did not exist; the caller's file-like
\* objects are never closed by upload_files; and no submission request is
\* made when a path does not exist.
C37_HandlesReleased ==
  op = "upload_files" =>
    /\ CallersObjects \subseteq open_handles
    /\ open_handles \subseteq CallersObjects \cup OpenedPaths
    /\ pc = "posting" => open_handles = CallersObjects \cup OpenedPaths
    /\ PastFinally => open_handles = CallersObjects
    /\ FirstMissing # 0 =>
         /\ attemptLog = <<>> /\ rpc = "idle" /\ rlog = <<>>
         /\ pc \in {"start", "closing", "returned"}
         /\ pc = "returned" => result = Propagate(Raise("ValueError", 0))

\* C37 witness: upload_files([path, missing path]) opened the first file,
\* found the second missing, and has raised ValueError with the first file
\* closed and no request made.
C37_Witness ==
  /\ op = "upload_files" /\ files = << "path", "missing" >>
  /\ pc = "returned"
  /\ opened_files = << 1 >> /\ open_handles = {}
  /\ result = Propagate(Raise("ValueError", 0))
  /\ attemptLog = <<>>

====
